---------------------------- MODULE Spec2Model ----------------------------
(***************************************************************************)
(* A model of package oaiaux (github.com/btnguyen2k/oaiaux):               *)
(*   - request defaulting: BaseClient.preparePrompt / prepareChatPrompt    *)
(*   - option lookup: Option.AsString, OptionList.GetString                *)
(*   - client construction: NewClient, AzureOpenAIClient.Init,             *)
(*     PlatformOpenAIClient.Init                                           *)
(*                                                                         *)
(* float64 fields (Temperature, TopP) are modelled as integers counting    *)
(* quarters (One = 1.0, so 1 is 0.25, 5 is 1.25, -1 is -0.25) plus the     *)
(* float64 value NaN, on which every ordered comparison and == is false,   *)
(* as in Go.  +Inf and -Inf compare like any value above 1.0 or below 0.0. *)
(***************************************************************************)
EXTENDS Integers, Sequences, FiniteSets

VARIABLES
    prompt,      \* the *PromptInput the caller hands to preparePrompt
    promptIn,    \* the same request as the caller constructed it
    chatPrompt,  \* the *ChatPromptInput the caller hands to prepareChatPrompt
    chatIn,      \* the same request as the caller constructed it
    pc,          \* per request: "new" (constructed) or "prepared" (defaulted)
    opts,        \* the OptionList of a lookup, or the opts handed to NewClient
    key,         \* the key of the last GetString call
    ret,         \* what the last GetString call returned: [s, err]
    pcLookup,    \* "new", or "returned" once GetString has been called
    flavor,      \* the Flavor handed to NewClient
    client,      \* the Client NewClient returned (NilClient before the call)
    err,         \* the error NewClient returned
    pcClient,    \* "new", or the source file whose NewClient has returned
    registry,    \* the codec registry: what tokenizer.ForModel / Get can resolve
    tok,         \* the last CountTokens call: codec used, Encode's result, count
    pcTokens,    \* "new", or "returned" once CountTokens has been called
    calls,       \* per caller: the client call it is in, its locals and result
    objects,     \* the request objects the callers pass, by object
    wire,        \* the requests the transport has received, in order
    ncalls,      \* the number of client calls started
    text,        \* the argument of EstimateTokens
    estimate,    \* the results of EstimateTokens, one per call made
    pcEst,       \* "new", "once" and "twice": calls of EstimateTokens made
    recv,        \* the receiver v of Vector.Dot
    other,       \* the argument of Vector.Dot
    dot,         \* the outcome of Dot: a number, or the out-of-range panic
    pcVec,       \* "new", or "returned" once Dot has run
    bodies,      \* the bodies transmitted by calls reusing one request object
    shared,      \* the request object two concurrent calls were both given
    sharedIn,    \* that object as the caller constructed it
    racer        \* per concurrent call: its position, register and body

prepVars == <<prompt, promptIn, chatPrompt, chatIn, pc>>
lookupVars == <<key, ret, pcLookup>>
clientVars == <<flavor, client, err, pcClient>>
tokenVars == <<registry, tok, pcTokens>>
callVars == <<calls, objects, wire, ncalls>>
estVars == <<text, estimate, pcEst>>
vecVars == <<recv, other, dot, pcVec>>
reuseVars == <<bodies>>
raceVars == <<shared, sharedIn, racer>>
lastVars == <<reuseVars, raceVars>>
laterVars == <<tokenVars, callVars, estVars, vecVars, lastVars>>
vars == <<prepVars, opts, lookupVars, clientVars, laterVars>>

-----------------------------------------------------------------------------
(* Bounds of the model *)

\* largest small integer the caller puts in MaxTokens, N and BestOf
MaxInt == 2
\* largest float the caller puts in Temperature and TopP, in quarters
MaxFloat == 5
\* largest number of options in an option list
MaxOpts == 3

-----------------------------------------------------------------------------
(* float64 *)

\* the literal 0.0
Zero == 0
\* the literal 1.0 (four quarters)
One == 4
\* the float64 NaN (a code outside every range of quarters)
NaN == 1000

\* Go's a < b, a > b and a == b on float64: false when either side is NaN
FLt(a, b) == a # NaN /\ b # NaN /\ a < b
FGt(a, b) == a # NaN /\ b # NaN /\ a > b
FEq(a, b) == a # NaN /\ b # NaN /\ a = b

\* the default a non-positive MaxTokens is replaced by
DefaultMaxTokens == 100

FloatVals == (-1 .. MaxFloat) \cup {NaN}
IntVals == (-1 .. MaxInt) \cup {DefaultMaxTokens}

-----------------------------------------------------------------------------
(* BaseClient.preparePrompt *)

\* a slip: BestOf compared with N before N is defaulted, MaxTokens 0 kept
promptDefaults_bestOfEarly(p) ==
    LET p1 == IF p.MaxTokens < 0 THEN [p EXCEPT !.MaxTokens = DefaultMaxTokens] ELSE p
        p2 == IF p1.BestOf < p1.N THEN [p1 EXCEPT !.BestOf = p1.N] ELSE p1
        p3 == IF p2.N < 1 THEN [p2 EXCEPT !.N = 1] ELSE p2
        p4 == IF FEq(Zero, p3.Temperature) /\ FEq(Zero, p3.TopP)
              THEN [p3 EXCEPT !.Temperature = One, !.TopP = One] ELSE p3
        p5 == IF FLt(p4.Temperature, Zero) \/ FGt(p4.Temperature, One)
              THEN [p4 EXCEPT !.Temperature = One] ELSE p4
        p6 == IF FLt(p5.TopP, Zero) \/ FGt(p5.TopP, One)
              THEN [p5 EXCEPT !.TopP = One] ELSE p5
    IN  p6

\* a slip: an out-of-range Temperature is reset to 0.0
promptDefaults_resetToZero(p) ==
    LET p1 == IF p.MaxTokens <= 0 THEN [p EXCEPT !.MaxTokens = DefaultMaxTokens] ELSE p
        p2 == IF p1.N < 1 THEN [p1 EXCEPT !.N = 1] ELSE p1
        p3 == IF p2.BestOf < p2.N THEN [p2 EXCEPT !.BestOf = p2.N] ELSE p2
        p4 == IF FEq(Zero, p3.Temperature) /\ FEq(Zero, p3.TopP)
              THEN [p3 EXCEPT !.Temperature = One, !.TopP = One] ELSE p3
        p5 == IF FLt(p4.Temperature, Zero) \/ FGt(p4.Temperature, One)
              THEN [p4 EXCEPT !.Temperature = Zero] ELSE p4
        p6 == IF FLt(p5.TopP, Zero) \/ FGt(p5.TopP, One)
              THEN [p5 EXCEPT !.TopP = One] ELSE p5
    IN  p6

\* lines 328-347: the integer defaults, the (0,0) default and the two clamps
promptDefaults(p) ==
    LET p1 == IF p.MaxTokens <= 0 THEN [p EXCEPT !.MaxTokens = DefaultMaxTokens] ELSE p
        p2 == IF p1.N < 1 THEN [p1 EXCEPT !.N = 1] ELSE p1
        p3 == IF p2.BestOf < p2.N THEN [p2 EXCEPT !.BestOf = p2.N] ELSE p2
        p4 == IF FEq(Zero, p3.Temperature) /\ FEq(Zero, p3.TopP)
              THEN [p3 EXCEPT !.Temperature = One, !.TopP = One] ELSE p3
        p5 == IF FLt(p4.Temperature, Zero) \/ FGt(p4.Temperature, One)
              THEN [p4 EXCEPT !.Temperature = One] ELSE p4
        p6 == IF FLt(p5.TopP, Zero) \/ FGt(p5.TopP, One)
              THEN [p5 EXCEPT !.TopP = One] ELSE p5
    IN  p6

\* lines 348-350: a fractional Temperature forces TopP to 1.0
promptTemperatureOverride(p) ==
    IF FLt(Zero, p.Temperature) /\ FLt(p.Temperature, One)
    THEN [p EXCEPT !.TopP = One] ELSE p

\* lines 351-353: a fractional TopP forces Temperature to 1.0
promptTopPOverride(p) ==
    IF FLt(Zero, p.TopP) /\ FLt(p.TopP, One)
    THEN [p EXCEPT !.Temperature = One] ELSE p

\* a slip: the two override steps of preparePrompt in the opposite order
preparePrompt_topPFirst(p) ==
    promptTemperatureOverride(promptTopPOverride(promptDefaults(p)))

preparePrompt(p) ==
    promptTopPOverride(promptTemperatureOverride(promptDefaults(p)))

-----------------------------------------------------------------------------
(* BaseClient.prepareChatPrompt *)

\* lines 359-375
chatDefaults(p) ==
    LET p1 == IF p.MaxTokens <= 0 THEN [p EXCEPT !.MaxTokens = DefaultMaxTokens] ELSE p
        p2 == IF p1.N < 1 THEN [p1 EXCEPT !.N = 1] ELSE p1
        p4 == IF FEq(Zero, p2.Temperature) /\ FEq(Zero, p2.TopP)
              THEN [p2 EXCEPT !.Temperature = One, !.TopP = One] ELSE p2
        p5 == IF FLt(p4.Temperature, Zero) \/ FGt(p4.Temperature, One)
              THEN [p4 EXCEPT !.Temperature = One] ELSE p4
        p6 == IF FLt(p5.TopP, Zero) \/ FGt(p5.TopP, One)
              THEN [p5 EXCEPT !.TopP = One] ELSE p5
    IN  p6

\* a slip: the Chat copy of the step tests Temperature <= 1.0
chatTemperatureOverride_inclusive(p) ==
    IF FLt(Zero, p.Temperature) /\ ~FGt(p.Temperature, One)
    THEN [p EXCEPT !.TopP = One] ELSE p

\* a slip: the Chat copy of the step is missing
chatTemperatureOverride_missing(p) == p

\* lines 376-378
chatTemperatureOverride(p) ==
    IF FLt(Zero, p.Temperature) /\ FLt(p.Temperature, One)
    THEN [p EXCEPT !.TopP = One] ELSE p

\* lines 379-381
chatTopPOverride(p) ==
    IF FLt(Zero, p.TopP) /\ FLt(p.TopP, One)
    THEN [p EXCEPT !.Temperature = One] ELSE p

prepareChatPrompt(p) ==
    chatTopPOverride(chatTemperatureOverride(chatDefaults(p)))

-----------------------------------------------------------------------------
(* Strings, errors and option values.                                      *)
(* A Go string is the sequence of its characters; an option Key is kept as *)
(* an atom, since keys are only compared for equality.  An error is the    *)
(* sequence of the pieces of its message, nil the empty sequence.          *)

EmptyString == <<>>
Nil == <<>>
ErrOptionNotFound == <<"option not found">>
\* the error reddo.ToString returns for a value it cannot convert
ErrNotConvertible == <<"reddo: cannot convert value to string">>

\* an interface{} value: a string, an int, a bool, or a value of a type that
\* has no string conversion
StringValue(str) == [type |-> "string", s |-> str, n |-> 0]
IntValue(i) == [type |-> "int", s |-> EmptyString, n |-> i]
BoolValue(b) == [type |-> "bool", s |-> EmptyString, n |-> IF b THEN 1 ELSE 0]
OtherValue == [type |-> "other", s |-> EmptyString, n |-> 0]

Digits == <<"0", "1", "2", "3", "4", "5", "6", "7", "8", "9">>

\* strconv.FormatInt(i, 10)
RECURSIVE FormatNat(_)
FormatNat(i) ==
    IF i < 10 THEN <<Digits[i + 1]>>
    ELSE FormatNat(i \div 10) \o <<Digits[(i % 10) + 1]>>
FormatInt(i) == IF i < 0 THEN <<"-">> \o FormatNat(-i) ELSE FormatNat(i)

\* strconv.FormatBool
FormatBool(n) == IF n = 1 THEN <<"t", "r", "u", "e">> ELSE <<"f", "a", "l", "s", "e">>

\* reddo.ToString: a string converts to itself, numbers and booleans to their
\* canonical text, unsupported types fail
reddoToString(v) ==
    CASE v.type = "string" -> [s |-> v.s, err |-> Nil]
      [] v.type = "int"    -> [s |-> FormatInt(v.n), err |-> Nil]
      [] v.type = "bool"   -> [s |-> FormatBool(v.n), err |-> Nil]
      [] OTHER             -> [s |-> EmptyString, err |-> ErrNotConvertible]

\* Option.AsString
AsString(o) == reddoToString(o.Value)

\* a slip: a failed conversion reported as "option not found"
RECURSIVE GetStringFrom_notFoundOnError(_, _, _)
GetStringFrom_notFoundOnError(ol, k, i) ==
    IF i > Len(ol) THEN [s |-> EmptyString, err |-> ErrOptionNotFound]
    ELSE IF ol[i].Key = k
         THEN IF AsString(ol[i]).err # Nil
              THEN [s |-> EmptyString, err |-> ErrOptionNotFound]
              ELSE AsString(ol[i])
         ELSE GetStringFrom_notFoundOnError(ol, k, i + 1)

\* a slip: the scan keeps going, so the last matching option wins
RECURSIVE GetStringFrom_lastMatch(_, _, _)
GetStringFrom_lastMatch(ol, k, i) ==
    IF i > Len(ol) THEN [s |-> EmptyString, err |-> ErrOptionNotFound]
    ELSE LET rest == GetStringFrom_lastMatch(ol, k, i + 1)
         IN  IF ol[i].Key = k /\ rest.err = ErrOptionNotFound
             THEN AsString(ol[i]) ELSE rest

\* OptionList.GetString, the loop from index i on (lines 157-162)
RECURSIVE GetStringFrom(_, _, _)
GetStringFrom(ol, k, i) ==
    IF i > Len(ol) THEN [s |-> EmptyString, err |-> ErrOptionNotFound]
    ELSE IF ol[i].Key = k THEN AsString(ol[i])
         ELSE GetStringFrom(ol, k, i + 1)

\* OptionList.GetString
GetString(ol, k) == GetStringFrom(ol, k, 1)

\* the option lists of at most MaxOpts options over the given keys and values
OptionLists(keys, values) ==
    UNION {[1 .. n -> [Key : keys, Value : values]] : n \in 0 .. MaxOpts}

-----------------------------------------------------------------------------
(* Clients: NewClient and the two Init methods *)

PlatformOpenAI == 0
AzureOpenAI == 1
\* a Flavor value that is neither of the two
UnknownFlavor == AzureOpenAI + 1
Flavors == {PlatformOpenAI, AzureOpenAI, UnknownFlavor}

OptAzureResourceName == "azure-resource-name"
OptAzureApiVersion == "azure-api-version"
OptAzureApiKey == "azure-api-key"
OptOpenAIApiKey == "openai-api-key"
OptOpenAIOrganization == "openai-organization"
OptOpenAIBaseUrl == "openai-base-url"
\* src/unnamed/part_001 spells the organization key differently
OptOpenAIOrganization_part001 == "openai-Organization"

DefaultAzureApiVersion ==
    <<"2", "0", "2", "3", "-", "0", "3", "-", "1", "5", "-", "p", "r", "e", "v", "i", "e", "w">>
DefaultOpenAIBaseUrl ==
    <<"h", "t", "t", "p", "s", ":", "/", "/", "a", "p", "i", ".", "o", "p", "e", "n", "a", "i", ".", "c", "o", "m", "/", "v", "1">>

\* the nil Client, and a freshly allocated client of a flavor holding opts
NilClient ==
    [type |-> "nil", opts |-> <<>>, resourceName |-> EmptyString,
     apiVersion |-> EmptyString, apiKey |-> EmptyString,
     organization |-> EmptyString, baseUrl |-> EmptyString]
NewAzureOpenAIClient(ol) == [NilClient EXCEPT !.type = "azure", !.opts = ol]
NewPlatformOpenAIClient(ol) == [NilClient EXCEPT !.type = "platform", !.opts = ol]

\* fmt.Errorf("cannot parse setting <%s> %s", setting, e); %s of a nil error
\* prints %!s(<nil>)
Errorf(setting, e) ==
    <<"cannot parse setting <", setting, "> ">>
        \o (IF e = Nil THEN <<"%!s(<nil>)">> ELSE e)

\* strings.TrimSuffix
TrimSuffix(str, suffix) ==
    IF Len(str) >= Len(suffix)
       /\ SubSeq(str, Len(str) - Len(suffix) + 1, Len(str)) = suffix
    THEN SubSeq(str, 1, Len(str) - Len(suffix))
    ELSE str

\* a slip: the API key is not checked for emptiness
AzureOpenAIClient_Init_emptyKey(c) ==
    LET r1 == GetString(c.opts, OptAzureResourceName)
        c1 == [c EXCEPT !.resourceName = r1.s]
        r2 == GetString(c.opts, OptAzureApiKey)
        c2 == [c1 EXCEPT !.apiKey = r2.s]
        r3 == GetString(c.opts, OptAzureApiVersion)
        c3 == [c2 EXCEPT !.apiVersion = r3.s]
    IN  IF r1.err # Nil \/ c1.resourceName = EmptyString
        THEN [c |-> c1, err |-> Errorf(OptAzureResourceName, r1.err)]
        ELSE IF r2.err # Nil
        THEN [c |-> c2, err |-> Errorf(OptAzureApiKey, r2.err)]
        ELSE IF r3.err # Nil \/ c3.apiVersion = EmptyString
        THEN [c |-> [c3 EXCEPT !.apiVersion = DefaultAzureApiVersion], err |-> Nil]
        ELSE [c |-> c3, err |-> Nil]

\* a slip: an empty API version is kept instead of defaulted
AzureOpenAIClient_Init_emptyVersion(c) ==
    LET r1 == GetString(c.opts, OptAzureResourceName)
        c1 == [c EXCEPT !.resourceName = r1.s]
        r2 == GetString(c.opts, OptAzureApiKey)
        c2 == [c1 EXCEPT !.apiKey = r2.s]
        r3 == GetString(c.opts, OptAzureApiVersion)
        c3 == [c2 EXCEPT !.apiVersion = r3.s]
    IN  IF r1.err # Nil \/ c1.resourceName = EmptyString
        THEN [c |-> c1, err |-> Errorf(OptAzureResourceName, r1.err)]
        ELSE IF r2.err # Nil \/ c2.apiKey = EmptyString
        THEN [c |-> c2, err |-> Errorf(OptAzureApiKey, r2.err)]
        ELSE IF r3.err # Nil
        THEN [c |-> [c3 EXCEPT !.apiVersion = DefaultAzureApiVersion], err |-> Nil]
        ELSE [c |-> c3, err |-> Nil]

\* AzureOpenAIClient.Init (the same text in oaiaux.go and in part_001)
AzureOpenAIClient_Init(c) ==
    LET r1 == GetString(c.opts, OptAzureResourceName)
        c1 == [c EXCEPT !.resourceName = r1.s]
        r2 == GetString(c.opts, OptAzureApiKey)
        c2 == [c1 EXCEPT !.apiKey = r2.s]
        r3 == GetString(c.opts, OptAzureApiVersion)
        c3 == [c2 EXCEPT !.apiVersion = r3.s]
    IN  IF r1.err # Nil \/ c1.resourceName = EmptyString
        THEN [c |-> c1, err |-> Errorf(OptAzureResourceName, r1.err)]
        ELSE IF r2.err # Nil \/ c2.apiKey = EmptyString
        THEN [c |-> c2, err |-> Errorf(OptAzureApiKey, r2.err)]
        ELSE IF r3.err # Nil \/ c3.apiVersion = EmptyString
        THEN [c |-> [c3 EXCEPT !.apiVersion = DefaultAzureApiVersion], err |-> Nil]
        ELSE [c |-> c3, err |-> Nil]

\* PlatformOpenAIClient.Init of oaiaux.go
PlatformOpenAIClient_Init(c) ==
    LET r1 == GetString(c.opts, OptOpenAIApiKey)
        c1 == [c EXCEPT !.apiKey = r1.s]
        c2 == [c1 EXCEPT !.organization = GetString(c.opts, OptOpenAIOrganization).s]
        c3 == [c2 EXCEPT !.baseUrl = GetString(c.opts, OptOpenAIBaseUrl).s]
        c4 == [c3 EXCEPT !.baseUrl = TrimSuffix(c3.baseUrl, <<"/">>)]
        c5 == IF c4.baseUrl = EmptyString
              THEN [c4 EXCEPT !.baseUrl = DefaultOpenAIBaseUrl] ELSE c4
    IN  IF r1.err # Nil \/ c1.apiKey = EmptyString
        THEN [c |-> c1, err |-> Errorf(OptOpenAIApiKey, r1.err)]
        ELSE [c |-> c5, err |-> Nil]

\* PlatformOpenAIClient.Init of src/unnamed/part_001
PlatformOpenAIClient_Init_part001(c) ==
    LET r1 == GetString(c.opts, OptOpenAIApiKey)
        c1 == [c EXCEPT !.apiKey = r1.s]
        c2 == [c1 EXCEPT !.organization =
                  GetString(c.opts, OptOpenAIOrganization_part001).s]
    IN  IF r1.err # Nil \/ c1.apiKey = EmptyString
        THEN [c |-> c1, err |-> Errorf(OptAzureApiKey, r1.err)]
        ELSE [c |-> c2, err |-> Nil]

\* fmt.Errorf("unknown flavor %#v", flavor)
UnknownFlavorError(f) == <<"unknown flavor ">> \o FormatInt(f)

\* a slip: no client is returned when Init fails
NewClient_nilOnInitError(f, ol) ==
    LET r == CASE f = AzureOpenAI -> AzureOpenAIClient_Init(NewAzureOpenAIClient(ol))
               [] f = PlatformOpenAI -> PlatformOpenAIClient_Init(NewPlatformOpenAIClient(ol))
               [] OTHER -> [c |-> NilClient, err |-> UnknownFlavorError(f)]
    IN  [client |-> IF r.err = Nil THEN r.c ELSE NilClient, err |-> r.err]

\* NewClient of oaiaux.go
NewClient(f, ol) ==
    CASE f = AzureOpenAI ->
            LET r == AzureOpenAIClient_Init(NewAzureOpenAIClient(ol))
            IN  [client |-> r.c, err |-> r.err]
      [] f = PlatformOpenAI ->
            LET r == PlatformOpenAIClient_Init(NewPlatformOpenAIClient(ol))
            IN  [client |-> r.c, err |-> r.err]
      [] OTHER -> [client |-> NilClient, err |-> UnknownFlavorError(f)]

\* NewClient of src/unnamed/part_001
NewClient_part001(f, ol) ==
    CASE f = AzureOpenAI ->
            LET r == AzureOpenAIClient_Init(NewAzureOpenAIClient(ol))
            IN  [client |-> r.c, err |-> r.err]
      [] f = PlatformOpenAI ->
            LET r == PlatformOpenAIClient_Init_part001(NewPlatformOpenAIClient(ol))
            IN  [client |-> r.c, err |-> r.err]
      [] OTHER -> [client |-> NilClient, err |-> UnknownFlavorError(f)]

-----------------------------------------------------------------------------
(* CountTokens.  The codec registry (github.com/tiktoken-go/tokenizer) and  *)
(* the codecs are collaborators: the registry resolves a model name or an   *)
(* encoding name to a codec or to nil, and a codec's Encode returns ids and *)
(* an error.                                                                *)

NilCodec == [via |-> "nil", name |-> EmptyString]
\* the codec tokenizer.Get(tokenizer.P50kBase) returns
P50kBaseCodec == [via |-> "encoding", name |-> <<"p", "5", "0", "k", "_", "b", "a", "s", "e">>]

\* tokenizer.ForModel(name): the codec registered for the model, or nil
ForModel(reg, name) ==
    IF name \in reg.models THEN [via |-> "model", name |-> name] ELSE NilCodec
\* tokenizer.Get(name): the codec registered for the encoding, or nil
Get(reg, name) ==
    IF name \in reg.encodings THEN [via |-> "encoding", name |-> name] ELSE NilCodec

\* a slip: the encoding option is consulted before the model option
CountTokens_encodingFirst(ol, reg, out) ==
    LET encoding == GetString(ol, "encoding")
        enc1 == IF encoding.s # EmptyString /\ encoding.err = Nil
                THEN Get(reg, encoding.s) ELSE NilCodec
        model == GetString(ol, "model")
        enc2 == IF enc1 = NilCodec
                THEN (IF model.s # EmptyString /\ model.err = Nil
                      THEN ForModel(reg, model.s) ELSE NilCodec)
                ELSE enc1
        enc3 == IF enc2 = NilCodec THEN Get(reg, P50kBaseCodec.name) ELSE enc2
    IN  IF enc3 = NilCodec
        THEN [codec |-> NilCodec, n |-> -1]
        ELSE [codec |-> enc3, n |-> Len(out.ids)]

\* a slip that the doc comment describes: -1 when Encode fails
CountTokens_minusOneOnEncodeError(ol, reg, out) ==
    LET model == GetString(ol, "model")
        enc1 == IF model.s # EmptyString /\ model.err = Nil
                THEN ForModel(reg, model.s) ELSE NilCodec
        encoding == GetString(ol, "encoding")
        enc2 == IF enc1 = NilCodec
                THEN (IF encoding.s # EmptyString /\ encoding.err = Nil
                      THEN Get(reg, encoding.s) ELSE NilCodec)
                ELSE enc1
        enc3 == IF enc2 = NilCodec THEN Get(reg, P50kBaseCodec.name) ELSE enc2
    IN  IF enc3 = NilCodec
        THEN [codec |-> NilCodec, n |-> -1]
        ELSE [codec |-> enc3, n |-> IF out.err # Nil THEN -1 ELSE Len(out.ids)]

\* CountTokens(input, opts...): out is what enc.Encode(input) returns for the
\* codec the call resolves; the result carries that codec beside the count
CountTokens(ol, reg, out) ==
    LET model == GetString(ol, "model")
        enc1 == IF model.s # EmptyString /\ model.err = Nil
                THEN ForModel(reg, model.s) ELSE NilCodec
        encoding == GetString(ol, "encoding")
        enc2 == IF enc1 = NilCodec
                THEN (IF encoding.s # EmptyString /\ encoding.err = Nil
                      THEN Get(reg, encoding.s) ELSE NilCodec)
                ELSE enc1
        enc3 == IF enc2 = NilCodec THEN Get(reg, P50kBaseCodec.name) ELSE enc2
    IN  IF enc3 = NilCodec
        THEN [codec |-> NilCodec, n |-> -1]
        ELSE [codec |-> enc3, n |-> Len(out.ids)]

-----------------------------------------------------------------------------
(* Client calls: URL, headers and output of Completions, ChatCompletions   *)
(* and Embeddings.  A request object is [Model, p]: the model name and the *)
(* other fields of the input; a transport response is [err, status, body]. *)

\* strings.Index(str, old): where old first occurs in str, 0 when it does not
Index(str, old) ==
    LET hits == {i \in 1 .. Len(str) - Len(old) + 1 :
                    SubSeq(str, i, i + Len(old) - 1) = old}
    IN  IF hits = {} THEN 0 ELSE CHOOSE i \in hits : \A j \in hits : i <= j

RECURSIVE ReplaceAll(_, _, _)
\* strings.ReplaceAll(str, old, new) for a non-empty old: the occurrences of
\* old, leftmost first and not overlapping, become new
ReplaceAll(str, old, new) ==
    IF Index(str, old) = 0 THEN str
    ELSE SubSeq(str, 1, Index(str, old) - 1) \o new
            \o ReplaceAll(SubSeq(str, Index(str, old) + Len(old), Len(str)), old, new)

PlaceholderResourceName == <<"{", "a", "z", "u", "r", "e", "-", "r", "e", "s", "o", "u", "r", "c", "e", "-", "n", "a", "m", "e", "}">>
PlaceholderModel == <<"{", "m", "o", "d", "e", "l", "}">>
PlaceholderApiVersion == <<"{", "a", "z", "u", "r", "e", "-", "a", "p", "i", "-", "v", "e", "r", "s", "i", "o", "n", "}">>
AzureUrlHead ==
    <<"h", "t", "t", "p", "s", ":", "/", "/">>
        \o PlaceholderResourceName \o <<".", "o", "p", "e", "n", "a", "i", ".", "a", "z", "u", "r", "e", ".", "c", "o", "m", "/", "o", "p", "e", "n", "a", "i", "/", "d", "e", "p", "l", "o", "y", "m", "e", "n", "t", "s", "/">>
        \o PlaceholderModel
AzureUrlTail == <<"?", "a", "p", "i", "-", "v", "e", "r", "s", "i", "o", "n", "=">> \o PlaceholderApiVersion

\* the three replacements every Azure buildUrl* applies to its template
AzureFillUrl(c, url, model) ==
    ReplaceAll(ReplaceAll(ReplaceAll(url, PlaceholderResourceName, c.resourceName),
                          PlaceholderModel, model),
               PlaceholderApiVersion, c.apiVersion)

AzureOpenAIClient_buildRequestHeaders(c) == {<<"api-key", c.apiKey>>}
AzureOpenAIClient_buildUrlCompletions(c, req) ==
    AzureFillUrl(c, AzureUrlHead \o <<"/", "c", "o", "m", "p", "l", "e", "t", "i", "o", "n", "s">> \o AzureUrlTail, req.Model)
AzureOpenAIClient_buildUrlChatCompletions(c, req) ==
    AzureFillUrl(c, AzureUrlHead \o <<"/", "c", "h", "a", "t", "/", "c", "o", "m", "p", "l", "e", "t", "i", "o", "n", "s">> \o AzureUrlTail, req.Model)
AzureOpenAIClient_buildUrlEmbeddings(c, input) ==
    AzureFillUrl(c, AzureUrlHead \o <<"/", "e", "m", "b", "e", "d", "d", "i", "n", "g", "s">> \o AzureUrlTail, input.Model)

PlatformOpenAIClient_buildRequestHeaders(c) ==
    {<<"Authorization", <<"B", "e", "a", "r", "e", "r", " ">> \o c.apiKey>>}
        \cup (IF c.organization # EmptyString
              THEN {<<"OpenAI-Organization", c.organization>>} ELSE {})
PlatformOpenAIClient_buildUrlCompletions(c, req) == c.baseUrl \o <<"/", "c", "o", "m", "p", "l", "e", "t", "i", "o", "n", "s">>
PlatformOpenAIClient_buildUrlChatCompletions(c, req) == c.baseUrl \o <<"/", "c", "h", "a", "t", "/", "c", "o", "m", "p", "l", "e", "t", "i", "o", "n", "s">>
PlatformOpenAIClient_buildUrlEmbeddings(c, input) == c.baseUrl \o <<"/", "e", "m", "b", "e", "d", "d", "i", "n", "g", "s">>

\* the errors of the transport and of resp.Unmarshal
ErrTransport == <<"transport error">>
ErrUnmarshalSyntax == <<"invalid character">>
ErrUnmarshalType == <<"cannot unmarshal">>

\* resp.Unmarshal(v): a well-formed body fills the fields of v; a body that is
\* not JSON leaves them alone; a body of the wrong shape fills some of them
Unmarshal(resp) ==
    CASE resp.body = "valid" -> [err |-> Nil, fields |-> "filled"]
      [] resp.body = "mismatch" -> [err |-> ErrUnmarshalType, fields |-> "partial"]
      [] OTHER -> [err |-> ErrUnmarshalSyntax, fields |-> "zero"]

buildCompletionsOutput(resp) ==
    LET completions == [type |-> "CompletionsOutput", Error |-> resp.err,
                        StatusCode |-> 0, fields |-> "zero"]
        unmarshalled ==
            IF completions.Error = Nil
            THEN [completions EXCEPT !.fields = Unmarshal(resp).fields,
                                     !.Error = Unmarshal(resp).err]
            ELSE completions
    IN  [unmarshalled EXCEPT !.StatusCode = resp.status]

\* a slip: the body is deserialized whatever the transport reported
buildChatCompletionsOutput_unmarshalAlways(resp) ==
    [type |-> "ChatCompletionsOutput", Error |-> Unmarshal(resp).err,
     StatusCode |-> resp.status, fields |-> Unmarshal(resp).fields]

buildChatCompletionsOutput(resp) ==
    LET completions == [type |-> "ChatCompletionsOutput", Error |-> resp.err,
                        StatusCode |-> 0, fields |-> "zero"]
        unmarshalled ==
            IF completions.Error = Nil
            THEN [completions EXCEPT !.fields = Unmarshal(resp).fields,
                                     !.Error = Unmarshal(resp).err]
            ELSE completions
    IN  [unmarshalled EXCEPT !.StatusCode = resp.status]

\* a slip: the status code is recorded only when there is no error
buildEmbeddingsOutput_statusOnSuccess(resp) ==
    LET embeddings == [type |-> "EmbeddingsOutput", Error |-> resp.err,
                       StatusCode |-> 0, fields |-> "zero"]
        unmarshalled ==
            IF embeddings.Error = Nil
            THEN [embeddings EXCEPT !.fields = Unmarshal(resp).fields,
                                    !.Error = Unmarshal(resp).err]
            ELSE embeddings
    IN  IF unmarshalled.Error = Nil
        THEN [unmarshalled EXCEPT !.StatusCode = resp.status]
        ELSE unmarshalled

buildEmbeddingsOutput(resp) ==
    LET embeddings == [type |-> "EmbeddingsOutput", Error |-> resp.err,
                       StatusCode |-> 0, fields |-> "zero"]
        unmarshalled ==
            IF embeddings.Error = Nil
            THEN [embeddings EXCEPT !.fields = Unmarshal(resp).fields,
                                    !.Error = Unmarshal(resp).err]
            ELSE embeddings
    IN  [unmarshalled EXCEPT !.StatusCode = resp.status]

\* the method of the client's flavor, by the kind of call
buildUrl(c, kind, req) ==
    CASE c.type = "azure" /\ kind = "Completions" ->
            AzureOpenAIClient_buildUrlCompletions(c, req)
      [] c.type = "azure" /\ kind = "ChatCompletions" ->
            AzureOpenAIClient_buildUrlChatCompletions(c, req)
      [] c.type = "azure" /\ kind = "Embeddings" ->
            AzureOpenAIClient_buildUrlEmbeddings(c, req)
      [] c.type = "platform" /\ kind = "Completions" ->
            PlatformOpenAIClient_buildUrlCompletions(c, req)
      [] c.type = "platform" /\ kind = "ChatCompletions" ->
            PlatformOpenAIClient_buildUrlChatCompletions(c, req)
      [] c.type = "platform" /\ kind = "Embeddings" ->
            PlatformOpenAIClient_buildUrlEmbeddings(c, req)
buildRequestHeaders(c) ==
    IF c.type = "azure"
    THEN AzureOpenAIClient_buildRequestHeaders(c)
    ELSE PlatformOpenAIClient_buildRequestHeaders(c)
\* a slip: defaulting also resets the fields that take no default
prepare_resetsOthers(kind, req) ==
    CASE kind = "Completions" -> [req EXCEPT !.p = preparePrompt(req.p), !.Others = ""]
      [] kind = "ChatCompletions" -> [req EXCEPT !.p = prepareChatPrompt(req.p), !.Others = ""]
      [] kind = "Embeddings" -> req
\* the request object after the call's prepare step (Embeddings has none);
\* a request is [Model, Others, p], p holding the fields that take a default
prepare(kind, req) ==
    CASE kind = "Completions" -> [req EXCEPT !.p = preparePrompt(req.p)]
      [] kind = "ChatCompletions" -> [req EXCEPT !.p = prepareChatPrompt(req.p)]
      [] kind = "Embeddings" -> req
buildOutput(kind, resp) ==
    CASE kind = "Completions" -> buildCompletionsOutput(resp)
      [] kind = "ChatCompletions" -> buildChatCompletionsOutput(resp)
      [] kind = "Embeddings" -> buildEmbeddingsOutput(resp)

\* a slip: the transport sends the request a second time
PostJson_retry(sent, request) == Append(Append(sent, request), request)
\* c.gjrc.PostJson: the transport receives one request
PostJson(sent, request) == Append(sent, request)

-----------------------------------------------------------------------------
(* EstimateTokens.  A string is a sequence of characters, each named by    *)
(* itself or, outside ASCII, by its code point; len([]byte(s)) adds up the *)
(* lengths of their UTF-8 encodings.                                       *)

\* characters \w and \d match: ASCII letters, digits and the underscore
WordChars == {"a", "Z", "7", "_"}
\* the length of the UTF-8 encoding of a character
ByteLength(ch) ==
    CASE ch = "U+00E9" -> 2
      [] ch = "U+7B2C" -> 3
      [] OTHER -> 1

RECURSIVE ByteLen(_)
\* len([]byte(str))
ByteLen(str) == IF str = <<>> THEN 0 ELSE ByteLength(Head(str)) + ByteLen(Tail(str))

\* re.FindAllStringIndex for a pattern [class]+ : the maximal runs of
\* characters of the class, as <<first, last>>
FindAllStringIndex(str, class) ==
    {m \in (1 .. Len(str)) \X (1 .. Len(str)) :
        /\ m[1] <= m[2]
        /\ \A i \in m[1] .. m[2] : str[i] \in class
        /\ m[1] = 1 \/ str[m[1] - 1] \notin class
        /\ m[2] = Len(str) \/ str[m[2] + 1] \notin class}

\* re.Split(str, -1) for such a pattern: the pieces before, between and
\* after the matches, empty pieces included; [""] for the empty string
Split(str, class) ==
    LET matches == FindAllStringIndex(str, class)
        n == Cardinality(matches)
        match(k) == CHOOSE m \in matches :
                        Cardinality({x \in matches : x[1] < m[1]}) = k - 1
        beg(k) == IF k = 1 THEN 1 ELSE match(k - 1)[2] + 1
    IN  IF str = <<>> THEN <<EmptyString>>
        ELSE [k \in 1 .. n + 1 |->
                 IF k <= n THEN SubSeq(str, beg(k), match(k)[1] - 1)
                 ELSE SubSeq(str, beg(k), Len(str))]

\* a slip: the quotient is truncated
CeilQuarter_truncated(n) == n \div 4
\* int(math.Ceil(float64(n) / 4.0))
CeilQuarter(n) == IF n % 4 = 0 THEN n \div 4 ELSE n \div 4 + 1

RECURSIVE SumWords(_)
\* the loop over words: numWords
SumWords(words) ==
    IF words = <<>> THEN 0
    ELSE (IF Head(words) # EmptyString THEN CeilQuarter(ByteLen(Head(words))) ELSE 0)
            + SumWords(Tail(words))

RECURSIVE SumNonWords(_)
\* the loop over nonWords: numNonWords
SumNonWords(nonWords) ==
    IF nonWords = <<>> THEN 0
    ELSE (IF Head(nonWords) # EmptyString THEN ByteLen(Head(nonWords)) ELSE 0)
            + SumNonWords(Tail(nonWords))

\* every character a string can hold
AllChars == WordChars \cup {" ", ",", "U+00E9", "U+7B2C"}

EstimateTokens(str) ==
    LET numWords == SumWords(Split(str, AllChars \ WordChars))
        numNonWords == SumNonWords(Split(str, WordChars))
        numBytes == ByteLen(str)
    IN  ((((numWords * 4) \div 3) + numNonWords) + (numBytes \div 4)) \div 2

-----------------------------------------------------------------------------
(* Vector.Dot.  A Vector is a sequence of float64 values, here of integral *)
(* value; the outcome of Dot is a number or the runtime's index-out-of-     *)
(* range panic.                                                            *)

Panic == [panic |-> TRUE, value |-> 0]

\* a slip: vectors of different lengths are rejected before the loop
Dot_lengthChecked(vec, oth) ==
    IF Len(vec) # Len(oth) THEN Panic
    ELSE LET sum[i \in 0 .. Len(vec)] ==
                 IF i = 0 THEN 0 ELSE sum[i - 1] + vec[i] * oth[i]
         IN  [panic |-> FALSE, value |-> sum[Len(vec)]]

RECURSIVE DotLoop(_, _, _, _)
\* for i, e := range v { result += e * other[i] }, from index i on
DotLoop(vec, oth, i, result) ==
    IF i > Len(vec) THEN [panic |-> FALSE, value |-> result]
    ELSE IF i > Len(oth) THEN Panic
    ELSE DotLoop(vec, oth, i + 1, result + vec[i] * oth[i])

\* v.Dot(other)
Dot(vec, oth) == DotLoop(vec, oth, 1, 0)

-----------------------------------------------------------------------------
(* Defaulting statement by statement.  preparePrompt, prepareChatPrompt and *)
(* the transmission of the request, as the sequence of their field reads   *)
(* and writes: a test reads field f and goes to step t when rel holds of    *)
(* the value read and to step e otherwise, a load reads f into the call's   *)
(* register, a store writes the register to f, a write writes val to f, and *)
(* a send reads f into the body the transport is handed.  The step after    *)
(* the last one is the call's return.                                      *)

preparePromptSteps ==
    <<
       \* 1: prompt.MaxTokens <= 0 (line 328)
       [op |-> "test", f |-> "MaxTokens", rel |-> "le0", val |-> 0, t |-> 2, e |-> 3],
       \* 2: prompt.MaxTokens = 100
       [op |-> "write", f |-> "MaxTokens", rel |-> "", val |-> DefaultMaxTokens, t |-> 3, e |-> 3],
       \* 3: prompt.N < 1 (line 331)
       [op |-> "test", f |-> "N", rel |-> "lt1", val |-> 0, t |-> 4, e |-> 5],
       \* 4: prompt.N = 1
       [op |-> "write", f |-> "N", rel |-> "", val |-> 1, t |-> 5, e |-> 5],
       \* 5: prompt.BestOf < prompt.N reads BestOf (line 334)
       [op |-> "load", f |-> "BestOf", rel |-> "", val |-> 0, t |-> 6, e |-> 6],
       \* 6: ... and then N
       [op |-> "test", f |-> "N", rel |-> "regLt", val |-> 0, t |-> 7, e |-> 9],
       \* 7: prompt.BestOf = prompt.N reads N (line 335)
       [op |-> "load", f |-> "N", rel |-> "", val |-> 0, t |-> 8, e |-> 8],
       \* 8: ... and writes BestOf
       [op |-> "store", f |-> "BestOf", rel |-> "", val |-> 0, t |-> 9, e |-> 9],
       \* 9: 0.0 == prompt.Temperature (line 338)
       [op |-> "test", f |-> "Temperature", rel |-> "eq0", val |-> 0, t |-> 10, e |-> 13],
       \* 10: && 0.0 == prompt.TopP
       [op |-> "test", f |-> "TopP", rel |-> "eq0", val |-> 0, t |-> 11, e |-> 13],
       \* 11: prompt.Temperature = 1.0
       [op |-> "write", f |-> "Temperature", rel |-> "", val |-> One, t |-> 12, e |-> 12],
       \* 12: prompt.TopP = 1.0
       [op |-> "write", f |-> "TopP", rel |-> "", val |-> One, t |-> 13, e |-> 13],
       \* 13: prompt.Temperature < 0.0 (line 342)
       [op |-> "test", f |-> "Temperature", rel |-> "lt0", val |-> 0, t |-> 15, e |-> 14],
       \* 14: || prompt.Temperature > 1.0
       [op |-> "test", f |-> "Temperature", rel |-> "gt1", val |-> 0, t |-> 15, e |-> 16],
       \* 15: prompt.Temperature = 1.0
       [op |-> "write", f |-> "Temperature", rel |-> "", val |-> One, t |-> 16, e |-> 16],
       \* 16: prompt.TopP < 0.0 (line 345)
       [op |-> "test", f |-> "TopP", rel |-> "lt0", val |-> 0, t |-> 18, e |-> 17],
       \* 17: || prompt.TopP > 1.0
       [op |-> "test", f |-> "TopP", rel |-> "gt1", val |-> 0, t |-> 18, e |-> 19],
       \* 18: prompt.TopP = 1.0
       [op |-> "write", f |-> "TopP", rel |-> "", val |-> One, t |-> 19, e |-> 19],
       \* 19: 0.0 < prompt.Temperature (line 348)
       [op |-> "test", f |-> "Temperature", rel |-> "gt0", val |-> 0, t |-> 20, e |-> 22],
       \* 20: && prompt.Temperature < 1.0
       [op |-> "test", f |-> "Temperature", rel |-> "lt1f", val |-> 0, t |-> 21, e |-> 22],
       \* 21: prompt.TopP = 1.0
       [op |-> "write", f |-> "TopP", rel |-> "", val |-> One, t |-> 22, e |-> 22],
       \* 22: 0.0 < prompt.TopP (line 351)
       [op |-> "test", f |-> "TopP", rel |-> "gt0", val |-> 0, t |-> 23, e |-> 25],
       \* 23: && prompt.TopP < 1.0
       [op |-> "test", f |-> "TopP", rel |-> "lt1f", val |-> 0, t |-> 24, e |-> 25],
       \* 24: prompt.Temperature = 1.0
       [op |-> "write", f |-> "Temperature", rel |-> "", val |-> One, t |-> 25, e |-> 25],
       \* 25: PostJson: the body takes MaxTokens
       [op |-> "send", f |-> "MaxTokens", rel |-> "", val |-> 0, t |-> 26, e |-> 26],
       \* 26: PostJson: the body takes Temperature
       [op |-> "send", f |-> "Temperature", rel |-> "", val |-> 0, t |-> 27, e |-> 27],
       \* 27: PostJson: the body takes TopP
       [op |-> "send", f |-> "TopP", rel |-> "", val |-> 0, t |-> 28, e |-> 28],
       \* 28: PostJson: the body takes N
       [op |-> "send", f |-> "N", rel |-> "", val |-> 0, t |-> 29, e |-> 29],
       \* 29: PostJson: the body takes BestOf
       [op |-> "send", f |-> "BestOf", rel |-> "", val |-> 0, t |-> 30, e |-> 30]
    >>

prepareChatPromptSteps ==
    <<
       \* 1: prompt.MaxTokens <= 0 (line 359)
       [op |-> "test", f |-> "MaxTokens", rel |-> "le0", val |-> 0, t |-> 2, e |-> 3],
       \* 2: prompt.MaxTokens = 100
       [op |-> "write", f |-> "MaxTokens", rel |-> "", val |-> DefaultMaxTokens, t |-> 3, e |-> 3],
       \* 3: prompt.N < 1 (line 362)
       [op |-> "test", f |-> "N", rel |-> "lt1", val |-> 0, t |-> 4, e |-> 5],
       \* 4: prompt.N = 1
       [op |-> "write", f |-> "N", rel |-> "", val |-> 1, t |-> 5, e |-> 5],
       \* 5: 0.0 == prompt.Temperature (line 366)
       [op |-> "test", f |-> "Temperature", rel |-> "eq0", val |-> 0, t |-> 6, e |-> 9],
       \* 6: && 0.0 == prompt.TopP
       [op |-> "test", f |-> "TopP", rel |-> "eq0", val |-> 0, t |-> 7, e |-> 9],
       \* 7: prompt.Temperature = 1.0
       [op |-> "write", f |-> "Temperature", rel |-> "", val |-> One, t |-> 8, e |-> 8],
       \* 8: prompt.TopP = 1.0
       [op |-> "write", f |-> "TopP", rel |-> "", val |-> One, t |-> 9, e |-> 9],
       \* 9: prompt.Temperature < 0.0 (line 370)
       [op |-> "test", f |-> "Temperature", rel |-> "lt0", val |-> 0, t |-> 11, e |-> 10],
       \* 10: || prompt.Temperature > 1.0
       [op |-> "test", f |-> "Temperature", rel |-> "gt1", val |-> 0, t |-> 11, e |-> 12],
       \* 11: prompt.Temperature = 1.0
       [op |-> "write", f |-> "Temperature", rel |-> "", val |-> One, t |-> 12, e |-> 12],
       \* 12: prompt.TopP < 0.0 (line 373)
       [op |-> "test", f |-> "TopP", rel |-> "lt0", val |-> 0, t |-> 14, e |-> 13],
       \* 13: || prompt.TopP > 1.0
       [op |-> "test", f |-> "TopP", rel |-> "gt1", val |-> 0, t |-> 14, e |-> 15],
       \* 14: prompt.TopP = 1.0
       [op |-> "write", f |-> "TopP", rel |-> "", val |-> One, t |-> 15, e |-> 15],
       \* 15: 0.0 < prompt.Temperature (line 376)
       [op |-> "test", f |-> "Temperature", rel |-> "gt0", val |-> 0, t |-> 16, e |-> 18],
       \* 16: && prompt.Temperature < 1.0
       [op |-> "test", f |-> "Temperature", rel |-> "lt1f", val |-> 0, t |-> 17, e |-> 18],
       \* 17: prompt.TopP = 1.0
       [op |-> "write", f |-> "TopP", rel |-> "", val |-> One, t |-> 18, e |-> 18],
       \* 18: 0.0 < prompt.TopP (line 379)
       [op |-> "test", f |-> "TopP", rel |-> "gt0", val |-> 0, t |-> 19, e |-> 21],
       \* 19: && prompt.TopP < 1.0
       [op |-> "test", f |-> "TopP", rel |-> "lt1f", val |-> 0, t |-> 20, e |-> 21],
       \* 20: prompt.Temperature = 1.0
       [op |-> "write", f |-> "Temperature", rel |-> "", val |-> One, t |-> 21, e |-> 21],
       \* 21: PostJson: the body takes Temperature
       [op |-> "send", f |-> "Temperature", rel |-> "", val |-> 0, t |-> 22, e |-> 22],
       \* 22: PostJson: the body takes TopP
       [op |-> "send", f |-> "TopP", rel |-> "", val |-> 0, t |-> 23, e |-> 23],
       \* 23: PostJson: the body takes N
       [op |-> "send", f |-> "N", rel |-> "", val |-> 0, t |-> 24, e |-> 24],
       \* 24: PostJson: the body takes MaxTokens
       [op |-> "send", f |-> "MaxTokens", rel |-> "", val |-> 0, t |-> 25, e |-> 25]
    >>

\* the steps of the call a request object is given to, by its type
StepsFor(obj) ==
    IF "BestOf" \in DOMAIN obj THEN preparePromptSteps ELSE prepareChatPromptSteps

\* a slip: the test Temperature < 1.0, or TopP < 1.0, also holds of 1.0
Holds_inclusive(rel, x, reg) ==
    CASE rel = "le0" -> x <= 0
      [] rel = "lt1" -> x < 1
      [] rel = "regLt" -> reg < x
      [] rel = "eq0" -> FEq(Zero, x)
      [] rel = "lt0" -> FLt(x, Zero)
      [] rel = "gt1" -> FGt(x, One)
      [] rel = "gt0" -> FLt(Zero, x)
      [] rel = "lt1f" -> ~FGt(x, One) /\ x # NaN

\* the comparison of a test, of the value x read and the register reg
Holds(rel, x, reg) ==
    CASE rel = "le0" -> x <= 0
      [] rel = "lt1" -> x < 1
      [] rel = "regLt" -> reg < x
      [] rel = "eq0" -> FEq(Zero, x)
      [] rel = "lt0" -> FLt(x, Zero)
      [] rel = "gt1" -> FGt(x, One)
      [] rel = "gt0" -> FLt(Zero, x)
      [] rel = "lt1f" -> FLt(x, One)

-----------------------------------------------------------------------------
(* The parts of the state a specification does not use *)

PrepIdle ==
    /\ prompt = [MaxTokens |-> 0, N |-> 0, BestOf |-> 0,
                 Temperature |-> Zero, TopP |-> Zero]
    /\ promptIn = prompt
    /\ chatPrompt = [MaxTokens |-> 0, N |-> 0, Temperature |-> Zero, TopP |-> Zero]
    /\ chatIn = chatPrompt
    /\ pc = [prompt |-> "new", chat |-> "new"]

LookupIdle ==
    /\ key = ""
    /\ ret = [s |-> EmptyString, err |-> Nil]
    /\ pcLookup = "new"

ClientIdle ==
    /\ flavor = PlatformOpenAI
    /\ client = NilClient
    /\ err = Nil
    /\ pcClient = "new"

TokensIdle ==
    /\ registry = [models |-> {}, encodings |-> {}]
    /\ tok = [codec |-> NilCodec, out |-> [ids |-> <<>>, err |-> Nil], n |-> 0]
    /\ pcTokens = "new"

\* the callers of the client: two goroutines sharing it
Procs == {"a", "b"}
\* the methods of a client
Kinds == {"Completions", "ChatCompletions", "Embeddings"}
NoResponse == [err |-> Nil, status |-> 0, body |-> "none"]
NilOutput == [type |-> "nil", Error |-> Nil, StatusCode |-> 0, fields |-> "zero"]
NoRequest == [Model |-> EmptyString, Others |-> "", p |-> [Input |-> EmptyString]]
IdleCall ==
    [pc |-> "idle", kind |-> "none", id |-> 0, reqIn |-> NoRequest,
     apiUrl |-> EmptyString, header |-> {}, resp |-> NoResponse, out |-> NilOutput]

CallsIdle ==
    /\ calls = [p \in Procs |-> IdleCall]
    /\ objects = [o \in Procs \X Kinds |-> NoRequest]
    /\ wire = <<>>
    /\ ncalls = 0

EstIdle ==
    /\ text = EmptyString
    /\ estimate = <<>>
    /\ pcEst = "new"

VecIdle ==
    /\ recv = <<>>
    /\ other = <<>>
    /\ dot = [panic |-> FALSE, value |-> 0]
    /\ pcVec = "new"

ReuseIdle == bodies = [prompt |-> <<>>, chat |-> <<>>]

\* a concurrent call that has not started: nothing read, nothing sent
IdleRacer == [pc |-> 0, reg |-> 0, body |-> {}]

RaceIdle ==
    /\ shared = [MaxTokens |-> 0, N |-> 0, Temperature |-> 0, TopP |-> 0]
    /\ sharedIn = shared
    /\ racer = [p \in Procs |-> IdleRacer]

LastIdle ==
    /\ ReuseIdle
    /\ RaceIdle

LaterIdle ==
    /\ TokensIdle
    /\ CallsIdle
    /\ EstIdle
    /\ VecIdle
    /\ LastIdle

-----------------------------------------------------------------------------
(* Specification Spec: a caller constructs a Prompt request and a Chat     *)
(* request with the same sampling parameters and hands each to its         *)
(* defaulting function.                                                    *)

PromptInputs ==
    [MaxTokens : IntVals, N : IntVals, BestOf : IntVals,
     Temperature : FloatVals, TopP : FloatVals]

ChatOf(p) ==
    [MaxTokens |-> p.MaxTokens, N |-> p.N,
     Temperature |-> p.Temperature, TopP |-> p.TopP]

Init ==
    /\ prompt \in PromptInputs
    /\ promptIn = prompt
    /\ chatPrompt = ChatOf(prompt)
    /\ chatIn = chatPrompt
    /\ pc = [prompt |-> "new", chat |-> "new"]
    /\ opts = <<>>
    /\ LookupIdle
    /\ ClientIdle
    /\ LaterIdle

CallPreparePrompt ==
    /\ pc.prompt = "new"
    /\ prompt' = preparePrompt(prompt)
    /\ pc' = [pc EXCEPT !.prompt = "prepared"]
    /\ UNCHANGED <<promptIn, chatPrompt, chatIn, opts, lookupVars, clientVars, laterVars>>

CallPrepareChatPrompt ==
    /\ pc.chat = "new"
    /\ chatPrompt' = prepareChatPrompt(chatPrompt)
    /\ pc' = [pc EXCEPT !.chat = "prepared"]
    /\ UNCHANGED <<prompt, promptIn, chatIn, opts, lookupVars, clientVars, laterVars>>

Next == CallPreparePrompt \/ CallPrepareChatPrompt

Spec == Init /\ [][Next]_vars


-----------------------------------------------------------------------------
(* Specification SpecLookup: GetString called, any number of times, on an  *)
(* option list whose keys differ in case and in a trailing blank.          *)

LookupKeys == {"key", "Key", "key "}
LookupValues ==
    {StringValue(EmptyString), StringValue(<<"a">>), StringValue(<<"b", "/">>),
     IntValue(-12), BoolValue(TRUE), OtherValue}

InitLookup ==
    /\ opts \in OptionLists(LookupKeys, LookupValues)
    /\ LookupIdle
    /\ PrepIdle
    /\ ClientIdle
    /\ LaterIdle

CallGetString ==
    \E k \in LookupKeys :
        /\ key' = k
        /\ ret' = GetString(opts, k)
        /\ pcLookup' = "returned"
        /\ UNCHANGED <<prepVars, opts, clientVars, laterVars>>

NextLookup == CallGetString

SpecLookup == InitLookup /\ [][NextLookup]_vars

-----------------------------------------------------------------------------
(* Specification SpecClient: NewClient called once, with a flavor and an   *)
(* option list over that flavor's keys and one key of different spelling.  *)
(* The repository holds two texts of the package, oaiaux.go and            *)
(* src/unnamed/part_001; the call runs one or the other.                   *)

ClientKeys(f) ==
    CASE f = AzureOpenAI ->
            {OptAzureResourceName, OptAzureApiKey, OptAzureApiVersion, "Azure-Api-Key"}
      [] f = PlatformOpenAI ->
            {OptOpenAIApiKey, OptOpenAIOrganization, OptOpenAIBaseUrl,
             OptOpenAIOrganization_part001}
      [] OTHER -> {OptOpenAIApiKey}
ClientValues ==
    {StringValue(EmptyString), StringValue(<<"a">>), StringValue(<<"b", "/">>),
     StringValue(<<"/", "/">>), IntValue(-12), OtherValue}

InitClient ==
    /\ flavor \in Flavors
    /\ opts \in OptionLists(ClientKeys(flavor), ClientValues)
    /\ client = NilClient
    /\ err = Nil
    /\ pcClient = "new"
    /\ PrepIdle
    /\ LookupIdle
    /\ LaterIdle

CallNewClient ==
    /\ pcClient = "new"
    /\ client' = NewClient(flavor, opts).client
    /\ err' = NewClient(flavor, opts).err
    /\ pcClient' = "oaiaux.go"
    /\ UNCHANGED <<prepVars, opts, lookupVars, flavor, laterVars>>

CallNewClient_part001 ==
    /\ pcClient = "new"
    /\ client' = NewClient_part001(flavor, opts).client
    /\ err' = NewClient_part001(flavor, opts).err
    /\ pcClient' = "part_001"
    /\ UNCHANGED <<prepVars, opts, lookupVars, flavor, laterVars>>

NextClient == CallNewClient \/ CallNewClient_part001

SpecClient == InitClient /\ [][NextClient]_vars

-----------------------------------------------------------------------------
(* Specification SpecTokens: CountTokens called on an option list over the *)
(* keys "model" and "encoding", with a registry that knows some of the     *)
(* names and may or may not hold the default encoding.                     *)

\* largest number of ids a codec returns
MaxIds == 2
\* the error of a codec whose Encode fails
ErrCodec == <<"codec: encode failed">>

TokenValues ==
    {StringValue(EmptyString), StringValue(<<"m">>), StringValue(<<"e">>), OtherValue}
Registries ==
    [models : SUBSET {<<"m">>},
     encodings : SUBSET {<<"e">>, P50kBaseCodec.name}]
\* what Encode may return: ids and no error, or an error beside the ids
\* produced so far
EncodeResults ==
    {[ids |-> [i \in 1 .. n |-> i], err |-> e] : n \in 0 .. MaxIds, e \in {Nil, ErrCodec}}

InitTokens ==
    /\ opts \in OptionLists({"model", "encoding"}, TokenValues)
    /\ registry \in Registries
    /\ tok = [codec |-> NilCodec, out |-> [ids |-> <<>>, err |-> Nil], n |-> 0]
    /\ pcTokens = "new"
    /\ PrepIdle
    /\ LookupIdle
    /\ ClientIdle
    /\ CallsIdle
    /\ EstIdle
    /\ VecIdle
    /\ LastIdle

CallCountTokens ==
    /\ pcTokens = "new"
    /\ \E out \in EncodeResults :
          LET r == CountTokens(opts, registry, out)
          IN  tok' = [codec |-> r.codec, n |-> r.n,
                      out |-> IF r.codec = NilCodec
                              THEN [ids |-> <<>>, err |-> Nil] ELSE out]
    /\ pcTokens' = "returned"
    /\ UNCHANGED <<prepVars, opts, lookupVars, clientVars, registry, callVars, estVars, vecVars,
                   lastVars>>

NextTokens == CallCountTokens

SpecTokens == InitTokens /\ [][NextTokens]_vars

-----------------------------------------------------------------------------
(* Specification SpecCalls: two callers share one initialized client and   *)
(* call Completions, ChatCompletions and Embeddings on it, each statement  *)
(* of a call being one step; the transport answers each request with any   *)
(* response.                                                               *)

\* largest number of client calls started
MaxCalls == 2

CallModels == {<<"m">>}
CallPrompts ==
    {[MaxTokens |-> 0, N |-> 2, BestOf |-> 1, Temperature |-> One, TopP |-> 2]}
\* what the caller put in the fields of a request that take no default
\* (Prompt or Messages, Stop, LogitBias, User, Stream, the penalties, Echo,
\* LogProbs, Suffix), as one value
CallerSet == "set by the caller"
\* the request objects a caller may pass to a call of a kind
Requests(kind) ==
    CASE kind = "Completions" ->
            [Model : CallModels, Others : {CallerSet}, p : CallPrompts]
      [] kind = "ChatCompletions" ->
            [Model : CallModels, Others : {CallerSet}, p : {ChatOf(q) : q \in CallPrompts}]
      [] kind = "Embeddings" ->
            [Model : CallModels, Others : {CallerSet}, p : {[Input |-> <<"x">>]}]
\* what the transport may answer
Responses ==
    {[err |-> ErrTransport, status |-> 500, body |-> "valid"],
     [err |-> Nil, status |-> 500, body |-> "valid"]}
        \cup {[err |-> Nil, status |-> 200, body |-> b] : b \in {"valid", "syntax", "mismatch"}}
\* the option lists the shared client was made from
CallOptionLists(f) ==
    IF f = AzureOpenAI
    THEN {<<[Key |-> OptAzureResourceName, Value |-> StringValue(<<"r">>)],
            [Key |-> OptAzureApiKey, Value |-> StringValue(<<"k">>)]>>}
    ELSE {<<[Key |-> OptOpenAIApiKey, Value |-> StringValue(<<"k">>)]>>,
          <<[Key |-> OptOpenAIApiKey, Value |-> StringValue(<<"k">>)],
            [Key |-> OptOpenAIOrganization, Value |-> StringValue(<<"o">>)],
            [Key |-> OptOpenAIBaseUrl, Value |-> StringValue(<<"u", "/">>)]>>}

\* a slip of the caller: both callers pass the same object of a type
RequestOf_shared(p, kind) == <<"a", kind>>
\* the request object a caller passes: one of its own, of the method's type
RequestOf(p, kind) == <<p, kind>>

InitCalls ==
    /\ flavor \in {PlatformOpenAI, AzureOpenAI}
    /\ opts \in CallOptionLists(flavor)
    /\ client = NewClient(flavor, opts).client
    /\ err = NewClient(flavor, opts).err
    /\ err = Nil
    /\ pcClient = "oaiaux.go"
    /\ CallsIdle
    /\ PrepIdle
    /\ LookupIdle
    /\ TokensIdle
    /\ EstIdle
    /\ VecIdle
    /\ LastIdle

callsRest ==
    <<prepVars, opts, lookupVars, clientVars, tokenVars, estVars, vecVars, lastVars>>

\* a caller constructs a request object and calls a method of the client
CallStart(p) ==
    /\ calls[p].pc \in {"idle", "returned"}
    /\ ncalls < MaxCalls
    /\ \E kind \in Kinds : \E req \in Requests(kind) :
          /\ objects' = [objects EXCEPT ![RequestOf(p, kind)] = req]
          /\ calls' = [calls EXCEPT ![p] =
                          [IdleCall EXCEPT !.pc = "called", !.kind = kind,
                                           !.id = ncalls + 1, !.reqIn = req]]
    /\ ncalls' = ncalls + 1
    /\ UNCHANGED <<wire, callsRest>>

\* apiUrl := c.buildUrl...(prompt)
StepBuildUrl(p) ==
    /\ calls[p].pc = "called"
    /\ calls' = [calls EXCEPT ![p].pc = "url",
                              ![p].apiUrl = buildUrl(client, calls[p].kind,
                                                     objects[RequestOf(p, calls[p].kind)])]
    /\ UNCHANGED <<objects, wire, ncalls, callsRest>>

\* header := c.buildRequestHeaders()
StepBuildRequestHeaders(p) ==
    /\ calls[p].pc = "url"
    /\ calls' = [calls EXCEPT ![p].pc = "header",
                              ![p].header = buildRequestHeaders(client)]
    /\ UNCHANGED <<objects, wire, ncalls, callsRest>>

\* prompt = c.preparePrompt(prompt), which writes to the request object
StepPrepare(p) ==
    /\ calls[p].pc = "header"
    /\ calls[p].kind # "Embeddings"
    /\ objects' = [objects EXCEPT ![RequestOf(p, calls[p].kind)] =
                      prepare(calls[p].kind, objects[RequestOf(p, calls[p].kind)])]
    /\ calls' = [calls EXCEPT ![p].pc = "prepared"]
    /\ UNCHANGED <<wire, ncalls, callsRest>>

\* resp := c.gjrc.PostJson(apiUrl, prompt, gjrc.RequestMeta{Header: header})
StepPostJson(p) ==
    /\ \/ calls[p].pc = "prepared"
       \/ calls[p].pc = "header" /\ calls[p].kind = "Embeddings"
    /\ wire' = PostJson(wire, [id |-> calls[p].id, url |-> calls[p].apiUrl,
                               header |-> calls[p].header,
                               body |-> objects[RequestOf(p, calls[p].kind)]])
    /\ \E resp \in Responses :
          calls' = [calls EXCEPT ![p].pc = "posted", ![p].resp = resp]
    /\ UNCHANGED <<objects, ncalls, callsRest>>

\* return c.build...Output(resp)
StepBuildOutput(p) ==
    /\ calls[p].pc = "posted"
    /\ calls' = [calls EXCEPT ![p].pc = "returned",
                              ![p].out = buildOutput(calls[p].kind, calls[p].resp)]
    /\ UNCHANGED <<objects, wire, ncalls, callsRest>>

NextCalls ==
    \E p \in Procs :
        \/ CallStart(p)
        \/ StepBuildUrl(p)
        \/ StepBuildRequestHeaders(p)
        \/ StepPrepare(p)
        \/ StepPostJson(p)
        \/ StepBuildOutput(p)

SpecCalls == InitCalls /\ [][NextCalls]_vars

-----------------------------------------------------------------------------
(* Specification SpecEstimate: EstimateTokens called twice on one string *)

\* longest string, in characters
MaxStrLen == 5
\* the characters the strings are made of
EstimateChars == {"a", "_", " ", "U+00E9", "U+7B2C"}
EstimateInputs == UNION {[1 .. n -> EstimateChars] : n \in 0 .. MaxStrLen}

InitEstimate ==
    /\ text \in EstimateInputs
    /\ estimate = <<>>
    /\ pcEst = "new"
    /\ PrepIdle
    /\ LookupIdle
    /\ ClientIdle
    /\ opts = <<>>
    /\ TokensIdle
    /\ CallsIdle
    /\ VecIdle
    /\ LastIdle

CallEstimateTokens ==
    /\ pcEst \in {"new", "once"}
    /\ estimate' = Append(estimate, EstimateTokens(text))
    /\ pcEst' = IF pcEst = "new" THEN "once" ELSE "twice"
    /\ UNCHANGED <<prepVars, opts, lookupVars, clientVars, tokenVars, callVars,
                   text, vecVars, lastVars>>

NextEstimate == CallEstimateTokens

SpecEstimate == InitEstimate /\ [][NextEstimate]_vars

-----------------------------------------------------------------------------
(* Specification SpecVector: Dot called on a receiver and an argument of  *)
(* any lengths                                                            *)

\* longest vector
MaxVecLen == 2
VecVals == {-1, 0, 2}
Vectors == UNION {[1 .. n -> VecVals] : n \in 0 .. MaxVecLen}

InitVector ==
    /\ recv \in Vectors
    /\ other \in Vectors
    /\ dot = [panic |-> FALSE, value |-> 0]
    /\ pcVec = "new"
    /\ PrepIdle
    /\ LookupIdle
    /\ ClientIdle
    /\ opts = <<>>
    /\ TokensIdle
    /\ CallsIdle
    /\ EstIdle
    /\ LastIdle

CallDot ==
    /\ pcVec = "new"
    /\ dot' = Dot(recv, other)
    /\ pcVec' = "returned"
    /\ UNCHANGED <<prepVars, opts, lookupVars, clientVars, tokenVars, callVars,
                   estVars, recv, other, lastVars>>

NextVector == CallDot

SpecVector == InitVector /\ [][NextVector]_vars

-----------------------------------------------------------------------------
(* Specification SpecReuse: a caller makes Completions and ChatCompletions *)
(* calls one after the other, passing the same request object every time;  *)
(* each call defaults the object in place and transmits it.                *)

\* largest number of calls on one request object
MaxReuse == 2

InitReuse ==
    /\ prompt \in PromptInputs
    /\ promptIn = prompt
    /\ chatPrompt = ChatOf(prompt)
    /\ chatIn = chatPrompt
    /\ pc = [prompt |-> "new", chat |-> "new"]
    /\ bodies = [prompt |-> <<>>, chat |-> <<>>]
    /\ opts = <<>>
    /\ LookupIdle
    /\ ClientIdle
    /\ TokensIdle
    /\ CallsIdle
    /\ EstIdle
    /\ VecIdle
    /\ RaceIdle

reuseRest ==
    <<opts, lookupVars, clientVars, tokenVars, callVars, estVars, vecVars, raceVars>>

\* Completions(prompt): prompt = c.preparePrompt(prompt), then PostJson
ReuseCompletions ==
    /\ Len(bodies.prompt) < MaxReuse
    /\ prompt' = preparePrompt(prompt)
    /\ bodies' = [bodies EXCEPT !.prompt = Append(@, prompt')]
    /\ pc' = [pc EXCEPT !.prompt = "prepared"]
    /\ UNCHANGED <<promptIn, chatPrompt, chatIn, reuseRest>>

\* ChatCompletions(prompt): prompt = c.prepareChatPrompt(prompt), then PostJson
ReuseChatCompletions ==
    /\ Len(bodies.chat) < MaxReuse
    /\ chatPrompt' = prepareChatPrompt(chatPrompt)
    /\ bodies' = [bodies EXCEPT !.chat = Append(@, chatPrompt')]
    /\ pc' = [pc EXCEPT !.chat = "prepared"]
    /\ UNCHANGED <<prompt, promptIn, chatIn, reuseRest>>

NextReuse == ReuseCompletions \/ ReuseChatCompletions

SpecReuse == InitReuse /\ [][NextReuse]_vars

-----------------------------------------------------------------------------
(* Specification SpecRace: two concurrent Completions calls, or two         *)
(* concurrent ChatCompletions calls, are given the same request object;    *)
(* every field read and every field write of a call is one step.           *)

RaceInts ==
    {[MaxTokens |-> 0, N |-> 0, BestOf |-> 0],
     [MaxTokens |-> 2, N |-> 2, BestOf |-> 1],
     [MaxTokens |-> -1, N |-> 1, BestOf |-> 2]}
RaceFloats == {-1, Zero, 2, One, 5, NaN}
RacePrompts ==
    {[MaxTokens |-> i.MaxTokens, N |-> i.N, BestOf |-> i.BestOf,
      Temperature |-> t, TopP |-> q] : i \in RaceInts, t \in RaceFloats, q \in RaceFloats}
\* the request objects the two calls may share: of either type
RaceRequests == RacePrompts \cup {ChatOf(q) : q \in RacePrompts}

InitRace ==
    /\ shared \in RaceRequests
    /\ sharedIn = shared
    /\ racer = [p \in Procs |-> [IdleRacer EXCEPT !.pc = 1]]
    /\ bodies = [prompt |-> <<>>, chat |-> <<>>]
    /\ opts = <<>>
    /\ PrepIdle
    /\ LookupIdle
    /\ ClientIdle
    /\ TokensIdle
    /\ CallsIdle
    /\ EstIdle
    /\ VecIdle

raceRest ==
    <<prepVars, opts, lookupVars, clientVars, tokenVars, callVars, estVars, vecVars,
      reuseVars, sharedIn>>

\* the step call p is at
RaceStep(p) == StepsFor(shared)[racer[p].pc]
\* call p is at a step of kind op
RaceAt(p, op) ==
    /\ racer[p].pc \in 1 .. Len(StepsFor(shared))
    /\ RaceStep(p).op = op

\* a guard reads a field and branches on it
RaceTest(p) ==
    /\ RaceAt(p, "test")
    /\ racer' = [racer EXCEPT ![p].pc =
                    IF Holds(RaceStep(p).rel, shared[RaceStep(p).f], racer[p].reg)
                    THEN RaceStep(p).t ELSE RaceStep(p).e]
    /\ UNCHANGED <<shared, raceRest>>

\* a field is read for a later comparison or assignment
RaceLoad(p) ==
    /\ RaceAt(p, "load")
    /\ racer' = [racer EXCEPT ![p].pc = RaceStep(p).t,
                              ![p].reg = shared[RaceStep(p).f]]
    /\ UNCHANGED <<shared, raceRest>>

\* the value read is assigned to a field
RaceStore(p) ==
    /\ RaceAt(p, "store")
    /\ shared' = [shared EXCEPT ![RaceStep(p).f] = racer[p].reg]
    /\ racer' = [racer EXCEPT ![p].pc = RaceStep(p).t]
    /\ UNCHANGED raceRest

\* a default is assigned to a field
RaceWrite(p) ==
    /\ RaceAt(p, "write")
    /\ shared' = [shared EXCEPT ![RaceStep(p).f] = RaceStep(p).val]
    /\ racer' = [racer EXCEPT ![p].pc = RaceStep(p).t]
    /\ UNCHANGED raceRest

\* the transmission reads a field into the body
RaceSend(p) ==
    /\ RaceAt(p, "send")
    /\ racer' = [racer EXCEPT ![p].pc = RaceStep(p).t,
                              ![p].body = @ \cup {<<RaceStep(p).f, shared[RaceStep(p).f]>>}]
    /\ UNCHANGED <<shared, raceRest>>

NextRace ==
    \E p \in Procs :
        \/ RaceTest(p)
        \/ RaceLoad(p)
        \/ RaceStore(p)
        \/ RaceWrite(p)
        \/ RaceSend(p)

SpecRace == InitRace /\ [][NextRace]_vars

-----------------------------------------------------------------------------
(* Properties of request defaulting (checked under Spec) *)

\* x is a number of the closed interval [0,1]
InUnit(x) == x # NaN /\ Zero <= x /\ x <= One
\* x is a number strictly between 0 and 1
Fractional(x) == x # NaN /\ Zero < x /\ x < One

SamplingValid(r) ==
    /\ r.N >= 1
    /\ r.MaxTokens > 0
    /\ InUnit(r.Temperature)
    /\ InUnit(r.TopP)
    /\ ~(Fractional(r.Temperature) /\ Fractional(r.TopP))

\* C1: after preparePrompt / prepareChatPrompt, whatever the input, the
\* request has N >= 1, MaxTokens > 0, Temperature and TopP in [0,1] and not
\* both strictly between 0 and 1.
C1_SamplingValidAfterDefaulting ==
    /\ pc.prompt = "prepared" => SamplingValid(prompt)
    /\ pc.chat = "prepared" => SamplingValid(chatPrompt)

\* The (Temperature, TopP) pair the claims C2 prescribe for an input pair.
C2_Holds(in, out) ==
    /\ (in.Temperature = Zero /\ in.TopP = Zero)
          => (out.Temperature = One /\ out.TopP = One)
    /\ Fractional(in.Temperature)
          => (out.Temperature = in.Temperature /\ out.TopP = One)

\* C2: input (0,0) yields (1.0,1.0); an input Temperature t strictly between
\* 0 and 1, with any TopP, yields Temperature = t and TopP = 1.0.
C2_TemperatureTopPDefaulting ==
    /\ pc.prompt = "prepared" => C2_Holds(promptIn, prompt)
    /\ pc.chat = "prepared" => C2_Holds(chatIn, chatPrompt)

\* both requests defaulted from an input with both parameters fractional
C2_Witness ==
    /\ pc.prompt = "prepared" /\ pc.chat = "prepared"
    /\ promptIn.Temperature = 2 /\ promptIn.TopP = 1
    /\ prompt.Temperature = 2 /\ chatPrompt.TopP = One

RefMaxTokens(in) == IF in.MaxTokens <= 0 THEN DefaultMaxTokens ELSE in.MaxTokens
RefN(in) == IF in.N < 1 THEN 1 ELSE in.N
RefBestOf(in) == IF in.BestOf < RefN(in) THEN RefN(in) ELSE in.BestOf

\* C3: MaxTokens' = 100 if MaxTokens <= 0 else unchanged; N' = 1 if N < 1
\* else unchanged; BestOf' = N' if BestOf < N' else unchanged, so
\* BestOf' >= N'; prepareChatPrompt gives the same MaxTokens' and N'.
C3_IntegerDefaults ==
    /\ pc.prompt = "prepared" =>
          /\ prompt.MaxTokens = RefMaxTokens(promptIn)
          /\ prompt.N = RefN(promptIn)
          /\ prompt.BestOf = RefBestOf(promptIn)
          /\ prompt.BestOf >= prompt.N
    /\ pc.chat = "prepared" =>
          /\ chatPrompt.MaxTokens = RefMaxTokens(chatIn)
          /\ chatPrompt.N = RefN(chatIn)

\* a request with MaxTokens 0, N 0 and BestOf 0 has been defaulted
C3_Witness ==
    /\ pc.prompt = "prepared" /\ pc.chat = "prepared"
    /\ promptIn.MaxTokens = 0 /\ promptIn.N = 0 /\ promptIn.BestOf = 0
    /\ prompt.MaxTokens = 100 /\ prompt.N = 1 /\ prompt.BestOf = 1

\* C4 (as claimed): the mutual override is precedence-free: the Temperature
\* step before the TopP step gives the same final pair as the opposite order,
\* and an input TopP strictly between 0 and 1 always yields Temperature 1.0.
C4_OverrideOrderFree ==
    /\ pc.prompt = "prepared" =>
          /\ prompt = promptTemperatureOverride(promptTopPOverride(promptDefaults(promptIn)))
          /\ Fractional(promptIn.TopP) => prompt.Temperature = One
    /\ pc.chat = "prepared" =>
          /\ chatPrompt = chatTemperatureOverride(chatTopPOverride(chatDefaults(chatIn)))
          /\ Fractional(chatIn.TopP) => chatPrompt.Temperature = One

C4_Ordered(in, out, otherOrder) ==
    LET both == Fractional(in.Temperature) /\ Fractional(in.TopP)
    IN  /\ (out = otherOrder) <=> ~both
        /\ both => (out.Temperature = in.Temperature /\ out.TopP = One)
        /\ both => (otherOrder.Temperature = One /\ otherOrder.TopP = in.TopP)
        /\ (Fractional(in.TopP) /\ ~Fractional(in.Temperature))
              => (out.Temperature = One /\ out.TopP = in.TopP)

\* C4 (amended): the override has a precedence, the Temperature step runs
\* first.  The two orders agree exactly when the input Temperature and TopP
\* are not both strictly between 0 and 1; when both are, the code keeps
\* Temperature and sets TopP to 1.0 (the opposite order would keep TopP and
\* set Temperature to 1.0); an input TopP strictly between 0 and 1 yields
\* Temperature 1.0 only when the input Temperature is not strictly between
\* 0 and 1.
C4_OverrideTemperatureFirst ==
    /\ pc.prompt = "prepared" =>
          C4_Ordered(promptIn, prompt,
              promptTemperatureOverride(promptTopPOverride(promptDefaults(promptIn))))
    /\ pc.chat = "prepared" =>
          C4_Ordered(chatIn, chatPrompt,
              chatTemperatureOverride(chatTopPOverride(chatDefaults(chatIn))))

\* both requests defaulted from (0.75, 0.5): Temperature kept, TopP forced
C4_Witness ==
    /\ pc.prompt = "prepared" /\ pc.chat = "prepared"
    /\ promptIn.Temperature = 3 /\ promptIn.TopP = 2
    /\ prompt.Temperature = 3 /\ prompt.TopP = One
    /\ chatPrompt.Temperature = 3 /\ chatPrompt.TopP = One

\* C5: for every input MaxTokens, N, Temperature and TopP, preparePrompt and
\* prepareChatPrompt produce the same MaxTokens, N, Temperature and TopP,
\* whatever BestOf is.
C5_PromptChatSameDefaulting ==
    (pc.prompt = "prepared" /\ pc.chat = "prepared" /\ ChatOf(promptIn) = chatIn)
        => ChatOf(prompt) = chatPrompt

\* both defaulted from an input every defaulting rule changes something of
C5_Witness ==
    /\ pc.prompt = "prepared" /\ pc.chat = "prepared"
    /\ promptIn.MaxTokens = -1 /\ promptIn.N = -1 /\ promptIn.BestOf = 2
    /\ promptIn.Temperature = 1 /\ promptIn.TopP = 5
    /\ chatPrompt # chatIn

-----------------------------------------------------------------------------
(* Properties of option lookup (checked under SpecLookup) *)

\* the positions of the options of ol whose key is exactly k
Matches(ol, k) == {i \in 1 .. Len(ol) : ol[i].Key = k}
\* the first of them
FirstMatch(ol, k) == CHOOSE i \in Matches(ol, k) : \A j \in Matches(ol, k) : i <= j

\* C6: GetString(key) returns the string conversion of the first option whose
\* key equals key exactly (case-sensitive, no trimming), ignoring later
\* options with that key; with no such option it returns the empty string
\* and ErrOptionNotFound.  The result depends only on the list and the key.
C6_GetStringFirstMatch ==
    pcLookup = "returned" =>
        IF Matches(opts, key) = {}
        THEN ret = [s |-> EmptyString, err |-> ErrOptionNotFound]
        ELSE ret = AsString(opts[FirstMatch(opts, key)])

\* looked up "key" in <<Key: .., key: "a", key: -12>>: the second option wins
C6_Witness ==
    /\ pcLookup = "returned" /\ key = "key" /\ Len(opts) = 3
    /\ opts[1].Key = "Key"
    /\ opts[2] = [Key |-> "key", Value |-> StringValue(<<"a">>)]
    /\ opts[3] = [Key |-> "key", Value |-> IntValue(-12)]
    /\ ret = [s |-> <<"a">>, err |-> Nil]

\* the first option matching the key holds a value with no string conversion
FirstMatchNotConvertible ==
    /\ Matches(opts, key) # {}
    /\ opts[FirstMatch(opts, key)].Value.type = "other"

\* C7 (as claimed): when the first option matching the key holds a value that
\* cannot be converted to a string, GetString fails with ErrOptionNotFound,
\* the same failure as for an absent key.
C7_NotConvertibleIsNotFound ==
    (pcLookup = "returned" /\ FirstMatchNotConvertible)
        => ret.err = ErrOptionNotFound

\* C7 (amended): when the first option matching the key holds a value that
\* cannot be converted to a string, GetString returns the empty string and
\* the conversion's own error, which is not ErrOptionNotFound;
\* ErrOptionNotFound is returned exactly when no option has the key.
C7_NotConvertibleIsConversionError ==
    pcLookup = "returned" =>
        /\ FirstMatchNotConvertible =>
              /\ ret = [s |-> EmptyString, err |-> ErrNotConvertible]
              /\ ret.err # ErrOptionNotFound
        /\ (ret.err = ErrOptionNotFound) <=> (Matches(opts, key) = {})

\* looked up a key whose first option is not convertible and whose second is
C7_Witness ==
    /\ pcLookup = "returned" /\ Len(opts) >= 2
    /\ opts[1] = [Key |-> key, Value |-> OtherValue]
    /\ opts[2] = [Key |-> key, Value |-> StringValue(<<"a">>)]
    /\ ret.err = ErrNotConvertible

-----------------------------------------------------------------------------
(* Properties of client construction (checked under SpecClient) *)

\* the option list resolves key k to a non-empty string
Resolves(k) ==
    /\ Matches(opts, k) # {}
    /\ AsString(opts[FirstMatch(opts, k)]).err = Nil
    /\ AsString(opts[FirstMatch(opts, k)]).s # EmptyString

AllOptionKeys ==
    {OptAzureResourceName, OptAzureApiVersion, OptAzureApiKey,
     OptOpenAIApiKey, OptOpenAIOrganization, OptOpenAIBaseUrl}

\* the message of error e names option k, and only option k
Names(e, k) == \E i \in 1 .. Len(e) : e[i] = k
NamesOnly(e, k) ==
    /\ Names(e, k)
    /\ \A o \in AllOptionKeys \ {k} : ~Names(e, o)

\* C8: AzureOpenAIClient.Init returns nil exactly when the option list
\* resolves both azure-resource-name and azure-api-key to non-empty strings;
\* otherwise the error names the missing option, the resource name when both
\* are missing.
C8_AzureInitRequiredOptions ==
    (flavor = AzureOpenAI /\ pcClient # "new") =>
        /\ (err = Nil) <=>
              (Resolves(OptAzureResourceName) /\ Resolves(OptAzureApiKey))
        /\ ~Resolves(OptAzureResourceName)
              => NamesOnly(err, OptAzureResourceName)
        /\ (Resolves(OptAzureResourceName) /\ ~Resolves(OptAzureApiKey))
              => NamesOnly(err, OptAzureApiKey)

\* Init has failed on a list with an empty resource name and no API key
C8_Witness ==
    /\ flavor = AzureOpenAI /\ pcClient = "oaiaux.go"
    /\ opts = <<[Key |-> OptAzureResourceName, Value |-> StringValue(EmptyString)],
                [Key |-> "Azure-Api-Key", Value |-> StringValue(<<"a">>)]>>
    /\ err = <<"cannot parse setting <", OptAzureResourceName, "> ", "%!s(<nil>)">>

\* C9: constructing a Platform client whose option list has no openai-api-key
\* option, or has it with an empty value, fails with an error that names
\* openai-api-key and no other option; an absent organization or base URL
\* never causes failure.
C9_PlatformInitNamesApiKey ==
    (flavor = PlatformOpenAI /\ pcClient # "new") =>
        /\ ~Resolves(OptOpenAIApiKey)
              => (err # Nil /\ NamesOnly(err, OptOpenAIApiKey))
        /\ Resolves(OptOpenAIApiKey) => err = Nil

\* the first azure-api-version option, when it converts to a non-empty string
ResolvedApiVersion ==
    IF Resolves(OptAzureApiVersion)
    THEN AsString(opts[FirstMatch(opts, OptAzureApiVersion)]).s
    ELSE DefaultAzureApiVersion

\* C10: after a successful AzureOpenAIClient.Init the API version is the
\* value of the first azure-api-version option when that converts to a
\* non-empty string, and "2023-03-15-preview" when the option is absent,
\* empty or not convertible; the API version never makes Init fail.
C10_AzureApiVersion ==
    (flavor = AzureOpenAI /\ pcClient # "new") =>
        /\ err = Nil => client.apiVersion = ResolvedApiVersion
        /\ (Resolves(OptAzureResourceName) /\ Resolves(OptAzureApiKey))
              => err = Nil

\* Init has succeeded on a list whose azure-api-version is the empty string
C10_Witness ==
    /\ flavor = AzureOpenAI /\ pcClient = "oaiaux.go" /\ err = Nil
    /\ Len(opts) = 3
    /\ opts[2] = [Key |-> OptAzureApiVersion, Value |-> StringValue(EmptyString)]
    /\ client.apiVersion = DefaultAzureApiVersion
    /\ client.resourceName # EmptyString /\ client.apiKey # EmptyString

\* the string ends with the character /
EndsWithSlash(str) == Len(str) > 0 /\ str[Len(str)] = "/"

\* C11: after a successful PlatformOpenAIClient.Init the resolved base URL
\* does not end with "/", whatever openai-base-url value was supplied; when
\* the option is absent or resolves to the empty string the base URL is
\* "https://api.openai.com/v1".
C11_BaseUrlNoTrailingSlash ==
    (flavor = PlatformOpenAI /\ pcClient = "oaiaux.go" /\ err = Nil) =>
        /\ ~EndsWithSlash(client.baseUrl)
        /\ ~Resolves(OptOpenAIBaseUrl) => client.baseUrl = DefaultOpenAIBaseUrl

-----------------------------------------------------------------------------
(* Properties of CountTokens (checked under SpecTokens) *)

\* the string of the first option keyed k, when it converts to a non-empty one
ResolvedString(k) == AsString(opts[FirstMatch(opts, k)]).s
\* the model option names a model the registry knows
ModelRegistered == Resolves("model") /\ ResolvedString("model") \in registry.models
\* the encoding option names an encoding the registry knows
EncodingRegistered ==
    Resolves("encoding") /\ ResolvedString("encoding") \in registry.encodings
\* the registry holds the default encoding
DefaultAvailable == P50kBaseCodec.name \in registry.encodings

\* C12: CountTokens uses the codec registered for a non-empty model option
\* even when an encoding option is present; otherwise the codec registered
\* for a non-empty encoding option (also when the model given is
\* unregistered); otherwise the default encoding p50k_base.
C12_CodecResolutionOrder ==
    pcTokens = "returned" =>
        /\ ModelRegistered =>
              tok.codec = [via |-> "model", name |-> ResolvedString("model")]
        /\ (~ModelRegistered /\ EncodingRegistered) =>
              tok.codec = [via |-> "encoding", name |-> ResolvedString("encoding")]
        /\ (~ModelRegistered /\ ~EncodingRegistered /\ DefaultAvailable) =>
              tok.codec = P50kBaseCodec

\* a call where the model codec won over a registered encoding option
C12_Witness ==
    /\ pcTokens = "returned"
    /\ ModelRegistered
    /\ EncodingRegistered
    /\ tok.codec.via = "model"

C14_MinusOneOnAnyError ==
    pcTokens = "returned" =>
        ((tok.codec = NilCodec \/ tok.out.err # Nil) => tok.n = -1)

-----------------------------------------------------------------------------
(* Properties of the client calls (checked under SpecCalls) *)

Returned(p) == calls[p].pc = "returned"

\* C15: the output's Error is the transport error, unchanged, when the
\* transport reported one, and then the body is not deserialized and the body
\* fields stay zero-valued; otherwise it is the result of deserializing the
\* body, nil or the deserialization error.
C15_ErrorField ==
    \A p \in Procs : Returned(p) =>
        IF calls[p].resp.err # Nil
        THEN calls[p].out.Error = calls[p].resp.err /\ calls[p].out.fields = "zero"
        ELSE calls[p].out.Error = Unmarshal(calls[p].resp).err

\* a chat call returned with a transport error beside a well-formed body
C15_Witness ==
    \E p \in Procs :
        /\ Returned(p)
        /\ calls[p].kind = "ChatCompletions"
        /\ calls[p].resp.err = ErrTransport
        /\ calls[p].resp.body = "valid"
        /\ calls[p].out.Error = ErrTransport

\* C16: every call returns an output, and its StatusCode is the status code
\* the transport reported, after a transport error, after a deserialization
\* error and after success alike.
C16_StatusCodeAlways ==
    \A p \in Procs : Returned(p) =>
        /\ calls[p].out.type # NilOutput.type
        /\ calls[p].out.StatusCode = calls[p].resp.status

\* an embeddings call returned a transport error with status 500 recorded
C16_Witness ==
    \E p \in Procs :
        /\ Returned(p)
        /\ calls[p].kind = "Embeddings"
        /\ calls[p].out.Error # Nil
        /\ calls[p].out.StatusCode = 500

\* the requests the transport received for the call numbered id
RequestsOf(id) == {i \in 1 .. Len(wire) : wire[i].id = id}
\* the calls that have passed their PostJson
Posted == {p \in Procs : calls[p].pc \in {"posted", "returned"}}

\* C17: every call issues exactly one request to the transport whatever the
\* outcome: a call that has passed PostJson has one request on the wire, a
\* call that has not has none, and when no call is in progress the transport
\* has received as many requests as calls were made.
C17_OneRequestPerCall ==
    /\ \A p \in Procs :
          Cardinality(RequestsOf(calls[p].id)) = IF p \in Posted THEN 1 ELSE 0
    /\ (\A p \in Procs : calls[p].pc \in {"idle", "returned"}) => Len(wire) = ncalls

\* two calls have returned, one of them after a transport error
C17_Witness ==
    /\ ncalls = 2
    /\ \A p \in Procs : calls[p].pc \in {"idle", "returned"}
    /\ \E p \in Procs : Returned(p) /\ calls[p].resp.err # Nil
    /\ Len(wire) = 2

\* the request a call of a kind on request object req sends when run alone
AloneRequest(id, kind, req) ==
    [id |-> id, url |-> buildUrl(client, kind, req),
     header |-> buildRequestHeaders(client), body |-> prepare(kind, req)]

\* C20: in every interleaving of concurrent calls on one client no call
\* writes a field of the client, and with distinct request objects each call
\* sends the URL, headers and body, and returns the output, that it would
\* when run alone with the same transport response.
C20_ConcurrentCallsIndependent ==
    /\ client = NewClient(flavor, opts).client
    /\ \A p \in Procs : Returned(p) =>
          /\ \E i \in RequestsOf(calls[p].id) :
                wire[i] = AloneRequest(calls[p].id, calls[p].kind, calls[p].reqIn)
          /\ calls[p].out = buildOutput(calls[p].kind, calls[p].resp)

\* both callers were inside a call at once, between their prepare step and
\* their return, and one has since returned
C20_Witness ==
    /\ calls["a"].pc = "returned"
    /\ calls["a"].kind = "Completions"
    /\ calls["b"].pc = "prepared"
    /\ calls["b"].id < calls["a"].id
    /\ objects[<<"a", "Completions">>] # calls["a"].reqIn

-----------------------------------------------------------------------------
(* Properties of EstimateTokens (checked under SpecEstimate) *)

IsWordChar(ch) == ch \in {"a", "Z", "7", "_"}
\* a maximal run of word characters starts at i
WordRunStart(str, i) == IsWordChar(str[i]) /\ (i = 1 \/ ~IsWordChar(str[i - 1]))
\* the number of characters of the run of word characters starting at i
WordRunLen(str, i) ==
    CHOOSE n \in 1 .. Len(str) :
        /\ \A j \in i .. i + n - 1 : IsWordChar(str[j])
        /\ i + n - 1 = Len(str) \/ ~IsWordChar(str[i + n])

RECURSIVE RefNumWords(_, _)
\* the sum, over the runs of word characters starting at i or later, of
\* ceil(byteLength / 4); a word character takes one byte
RefNumWords(str, i) ==
    IF i > Len(str) THEN 0
    ELSE (IF WordRunStart(str, i) THEN (WordRunLen(str, i) + 3) \div 4 ELSE 0)
            + RefNumWords(str, i + 1)

RECURSIVE RefNumNonWords(_, _)
\* the bytes of the characters at i or later that are not word characters
RefNumNonWords(str, i) ==
    IF i > Len(str) THEN 0
    ELSE (IF IsWordChar(str[i]) THEN 0 ELSE ByteLength(str[i]))
            + RefNumNonWords(str, i + 1)

RefEstimate(str) ==
    (((RefNumWords(str, 1) * 4) \div 3 + RefNumNonWords(str, 1))
        + (ByteLen(str) \div 4)) \div 2

\* C18: EstimateTokens(input) is ((numWords*4/3 + numNonWords) + numBytes/4) / 2
\* in truncating integer division, numWords adding ceil(byteLength/4) over the
\* maximal runs of word characters and numNonWords the byte lengths of the
\* runs of other characters; it is 0 for the empty input, never negative,
\* and the same on every call.
C18_EstimateFormula ==
    \A i \in 1 .. Len(estimate) :
        /\ estimate[i] = RefEstimate(text)
        /\ estimate[i] >= 0
        /\ text = EmptyString => estimate[i] = 0

\* two calls on a string of three words around a blank and a three-byte
\* character
C18_Witness ==
    /\ pcEst = "twice"
    /\ text = <<"a", " ", "a", "U+7B2C", "a">>
    /\ estimate = <<4, 4>>

-----------------------------------------------------------------------------
(* Properties of Vector.Dot (checked under SpecVector) *)

RECURSIVE SumOfProducts(_, _, _)
\* the sum of the products of the first n elements of two vectors
SumOfProducts(vec, oth, n) ==
    IF n = 0 THEN 0 ELSE SumOfProducts(vec, oth, n - 1) + vec[n] * oth[n]

\* C19 (as claimed): Dot returns the sum of elementwise products for vectors
\* of equal length and ends in an out-of-range failure whenever the lengths
\* differ, in either direction; it never returns a number for vectors of
\* different lengths.
C19_DotFailsOnAnyLengthDifference ==
    pcVec = "returned" =>
        IF Len(recv) = Len(other)
        THEN dot = [panic |-> FALSE, value |-> SumOfProducts(recv, other, Len(recv))]
        ELSE dot.panic

\* C19 (corrected): Dot ends in an out-of-range failure exactly when the
\* argument is shorter than the receiver; otherwise it returns the sum of the
\* products over the receiver's indices, ignoring the further elements of a
\* longer argument.
C19_DotFailsOnShorterArgument ==
    pcVec = "returned" =>
        IF Len(other) < Len(recv)
        THEN dot.panic
        ELSE dot = [panic |-> FALSE, value |-> SumOfProducts(recv, other, Len(recv))]

\* Dot returned a number for an argument longer than the receiver
C19_Witness ==
    /\ pcVec = "returned"
    /\ Len(recv) = 1
    /\ Len(other) = 2
    /\ ~dot.panic
    /\ dot.value = recv[1] * other[1]
    /\ dot.value # 0

-----------------------------------------------------------------------------
(* Properties of NewClient's results (checked under SpecClient) *)

KnownFlavor == flavor \in {PlatformOpenAI, AzureOpenAI}
\* the options Init of the flavor requires all resolve to non-empty strings
RequiredOptionsResolve ==
    IF flavor = AzureOpenAI
    THEN Resolves(OptAzureResourceName) /\ Resolves(OptAzureApiKey)
    ELSE Resolves(OptOpenAIApiKey)

\* C24: NewClient returns a nil client exactly for an unknown flavor, and then
\* with an error; for the Platform and Azure flavors the client is non-nil
\* also when Init fails, and the error is nil exactly when the flavor is known
\* and Init succeeded.
C24_NilClientOnlyForUnknownFlavor ==
    pcClient # "new" =>
        /\ client = NilClient <=> ~KnownFlavor
        /\ client.type = "nil" <=> ~KnownFlavor
        /\ ~KnownFlavor => err # Nil
        /\ err = Nil <=> (KnownFlavor /\ RequiredOptionsResolve)

\* an Azure client was returned beside the error of its failed Init
C24_Witness ==
    /\ pcClient = "oaiaux.go"
    /\ flavor = AzureOpenAI
    /\ ~RequiredOptionsResolve
    /\ err # Nil
    /\ client.type = "azure"
    /\ client.opts = opts

-----------------------------------------------------------------------------
(* Frame of a client call on the caller's request (checked under SpecCalls) *)

\* the request object caller p passed to the call it is in
RequestObject(p) == objects[RequestOf(p, calls[p].kind)]
PromptDefaulted == {"MaxTokens", "N", "BestOf", "Temperature", "TopP"}
ChatDefaulted == {"MaxTokens", "N", "Temperature", "TopP"}

\* C21: a call changes the caller's request only by in-place defaulting:
\* Completions only MaxTokens, N, BestOf, Temperature and TopP, ChatCompletions
\* only MaxTokens, N, Temperature and TopP, every other field staying as the
\* caller set it; Embeddings leaves its request unchanged; the body handed to
\* the transport is the request after defaulting.
C21_RequestFrame ==
    \A p \in Procs : calls[p].pc \in {"posted", "returned"} =>
        /\ RequestObject(p).Model = calls[p].reqIn.Model
        /\ RequestObject(p).Others = calls[p].reqIn.Others
        /\ DOMAIN RequestObject(p).p = DOMAIN calls[p].reqIn.p
        /\ calls[p].kind = "Completions" =>
              /\ DOMAIN RequestObject(p).p = PromptDefaulted
              /\ RequestObject(p).p = preparePrompt(calls[p].reqIn.p)
        /\ calls[p].kind = "ChatCompletions" =>
              /\ DOMAIN RequestObject(p).p = ChatDefaulted
              /\ RequestObject(p).p = prepareChatPrompt(calls[p].reqIn.p)
        /\ calls[p].kind = "Embeddings" => RequestObject(p) = calls[p].reqIn
        /\ \A i \in RequestsOf(calls[p].id) : wire[i].body = RequestObject(p)

\* a Completions call has sent a request whose defaulted fields differ from
\* what the caller passed, the other fields being the caller's
C21_Witness ==
    \E p \in Procs :
        /\ calls[p].pc = "posted"
        /\ calls[p].kind = "Completions"
        /\ RequestObject(p).p # calls[p].reqIn.p
        /\ RequestObject(p).Others = CallerSet
        /\ \E i \in RequestsOf(calls[p].id) : wire[i].body = RequestObject(p)

-----------------------------------------------------------------------------
(* Properties of reusing a request object (checked under SpecReuse) *)

\* C22: request defaulting is idempotent: preparePrompt and prepareChatPrompt
\* applied to their own result change no field, so after any number of calls
\* reusing a request object the object holds the values it held after the
\* first call, and every call transmits the same sampling parameters.
C22_DefaultingIdempotent ==
    /\ preparePrompt(preparePrompt(promptIn)) = preparePrompt(promptIn)
    /\ prepareChatPrompt(prepareChatPrompt(chatIn)) = prepareChatPrompt(chatIn)
    /\ \A i \in 1 .. Len(bodies.prompt) :
          bodies.prompt[i] = preparePrompt(promptIn) /\ prompt = bodies.prompt[i]
    /\ \A i \in 1 .. Len(bodies.chat) :
          bodies.chat[i] = prepareChatPrompt(chatIn) /\ chatPrompt = bodies.chat[i]

\* two Completions and two ChatCompletions calls were made on a request whose
\* Temperature was out of range and whose TopP was zero
C22_Witness ==
    /\ Len(bodies.prompt) = 2
    /\ Len(bodies.chat) = 2
    /\ FGt(promptIn.Temperature, One)
    /\ FEq(promptIn.TopP, Zero)
    /\ promptIn.N = 0
    /\ bodies.prompt[2] = bodies.prompt[1]
    /\ bodies.prompt[2] # promptIn

-----------------------------------------------------------------------------
(* Properties of concurrent calls sharing a request (checked under SpecRace) *)

\* call p has returned
RaceDone(p) == racer[p].pc = Len(StepsFor(shared)) + 1
\* the request a single sequential defaulting of the caller's object gives
SequentialDefault ==
    IF "BestOf" \in DOMAIN sharedIn
    THEN preparePrompt(sharedIn) ELSE prepareChatPrompt(sharedIn)
\* the value of field f in the body call p transmitted
Transmitted(p, f) == CHOOSE x \in {b[2] : b \in {c \in racer[p].body : c[1] = f}} : TRUE

\* C23 (as claimed): when two concurrent calls are given the same request
\* object, in every interleaving of their field reads and writes the request
\* ends in the state a single sequential defaulting produces, and each call
\* transmits the MaxTokens, N, BestOf, Temperature and TopP of that state.
C23_SharedRequestAsSequential ==
    /\ (\A p \in Procs : RaceDone(p)) => shared = SequentialDefault
    /\ \A p \in Procs : RaceDone(p) =>
          \A f \in DOMAIN shared : Transmitted(p, f) = SequentialDefault[f]

\* the caller left both Temperature and TopP at zero
BothUnset == FEq(Zero, sharedIn.Temperature) /\ FEq(Zero, sharedIn.TopP)

\* C23 (corrected): the request ends in the sequentially defaulted state and
\* each call transmits the MaxTokens, N, BestOf and Temperature of that state;
\* the TopP a call transmits is that of the sequential state too, except for
\* a request given with Temperature and TopP both zero, where a call may
\* transmit the TopP 0.0 of the caller beside the Temperature 1.0.
C23_SharedRequestTopPMayLag ==
    /\ (\A p \in Procs : RaceDone(p)) => shared = SequentialDefault
    /\ \A p \in Procs : RaceDone(p) =>
          /\ \A f \in DOMAIN shared \ {"TopP"} : Transmitted(p, f) = SequentialDefault[f]
          /\ \/ Transmitted(p, "TopP") = SequentialDefault.TopP
             \/ BothUnset /\ Transmitted(p, "TopP") = sharedIn.TopP

\* a call has returned after transmitting Temperature 1.0 with TopP 0.0 for a
\* request whose sequential defaulting gives TopP 1.0
C23_Witness ==
    \E p \in Procs :
        /\ RaceDone(p)
        /\ BothUnset
        /\ Transmitted(p, "Temperature") = One
        /\ Transmitted(p, "TopP") = Zero
        /\ SequentialDefault.TopP = One

=============================================================================
